---------------------------- MODULE Spec2Model ----------------------------
(***************************************************************************)
(* OpenSpore agent control loop (crates/brain/src/thinking.rs), the        *)
(* invocation extractor (crates/brain/src/parser.rs), the write-safety     *)
(* gate with its path normalisation (crates/core/src/path_utils.rs) and    *)
(* the bounded sub-agent spawner (crates/swarm/src/lib.rs).                *)
(*                                                                         *)
(* Texts are TLA+ strings handled character by character with the code's   *)
(* 0-based indices, so that the extractor, the gate's substring test and   *)
(* the feedback formatting are computed as the code computes them.         *)
(***************************************************************************)
EXTENDS Integers, Sequences, FiniteSets, TLC

(***************************************************************************)
(* String primitives (Rust str / Vec<char> operations used by the code)    *)
(***************************************************************************)

\* chars[i] with the code's 0-based index
CharAt(s, i) == SubSeq(s, i + 1, i + 1)

\* chars[a..b].iter().collect::<String>()
Slice(s, a, b) == SubSeq(s, a + 1, b)

\* i + n <= len && chars[i..i+n] == pat
MatchAt(s, i, pat) ==
    /\ i + Len(pat) <= Len(s)
    /\ Slice(s, i, i + Len(pat)) = pat

\* str::contains(pat)
Contains(s, pat) == \E i \in 0..(Len(s) - Len(pat)) : Slice(s, i, i + Len(pat)) = pat

\* str::starts_with / str::ends_with
StartsWith(s, pat) == MatchAt(s, 0, pat)

EndsWith(s, pat) == Len(pat) <= Len(s) /\ Slice(s, Len(s) - Len(pat), Len(s)) = pat

\* char::is_whitespace, restricted to the white space the model's texts use
is_whitespace(c) == c \in {" ", "\n", "\t", "\r"}

UpperChars == "ABCDEFGHIJKLMNOPQRSTUVWXYZ"

LowerChars == "abcdefghijklmnopqrstuvwxyz"

\* char::is_ascii_uppercase
is_ascii_uppercase(c) == \E k \in 0..25 : CharAt(UpperChars, k) = c

\* char::is_numeric, restricted to the ASCII digits
is_numeric(c) == c \in {"0", "1", "2", "3", "4", "5", "6", "7", "8", "9"}

\* the character class of a tool name: [A-Z0-9_]
IsNameChar(c) == is_ascii_uppercase(c) \/ is_numeric(c) \/ c = "_"

LowerChar(c) ==
    IF is_ascii_uppercase(c)
    THEN CharAt(LowerChars, CHOOSE k \in 0..25 : CharAt(UpperChars, k) = c)
    ELSE c

RECURSIVE to_lowercase(_)
\* str::to_lowercase
to_lowercase(s) == IF s = "" THEN "" ELSE LowerChar(CharAt(s, 0)) \o to_lowercase(Tail(s))

RECURSIVE TrimStart(_)
TrimStart(s) == IF s # "" /\ is_whitespace(CharAt(s, 0)) THEN TrimStart(Tail(s)) ELSE s

RECURSIVE TrimEnd(_)
TrimEnd(s) ==
    IF s # "" /\ is_whitespace(CharAt(s, Len(s) - 1))
    THEN TrimEnd(Slice(s, 0, Len(s) - 1))
    ELSE s

\* a trim that leaves the trailing white space
Trim_StartOnly(s) == TrimStart(s)

\* str::trim
Trim(s) == TrimEnd(TrimStart(s))

RECURSIVE TrimStartChar(_, _)
TrimStartChar(s, c) == IF s # "" /\ CharAt(s, 0) = c THEN TrimStartChar(Tail(s), c) ELSE s

RECURSIVE TrimEndChar(_, _)
TrimEndChar(s, c) ==
    IF s # "" /\ CharAt(s, Len(s) - 1) = c
    THEN TrimEndChar(Slice(s, 0, Len(s) - 1), c)
    ELSE s

\* str::trim_matches(c)
trim_matches(s, c) == TrimEndChar(TrimStartChar(s, c), c)

RECURSIVE TakeToken(_)
TakeToken(s) ==
    IF s = "" \/ is_whitespace(CharAt(s, 0)) THEN "" ELSE CharAt(s, 0) \o TakeToken(Tail(s))

\* arg.split_whitespace().next().unwrap_or("")
FirstToken(s) == TakeToken(TrimStart(s))

RECURSIVE ReplaceAll(_, _, _)
\* str::replace(from, to)
ReplaceAll(s, from, to) ==
    IF s = "" THEN ""
    ELSE IF StartsWith(s, from)
         THEN to \o ReplaceAll(Slice(s, Len(from), Len(s)), from, to)
         ELSE CharAt(s, 0) \o ReplaceAll(Tail(s), from, to)

\* The character U+0060 (grave accent) cannot be written inside a TLA+ string
\* literal; the model writes it as "^", which occurs in none of the code's texts.
Backtick == "^"

\* the Markdown fence, three grave accents
Fence == Backtick \o Backtick \o Backtick

(***************************************************************************)
(* Skill registry (crates/skills/src/lib.rs)                               *)
(***************************************************************************)

\* the registered skills the model uses, keyed by lower-case name
SkillNames == {"read_file", "edit_file", "write_file", "diff_patch", "delegate"}

\* a registry that knows every name
skill_get_Any(name) == TRUE

\* SkillLoader::get(name).is_some(): the lookup is case-insensitive
skill_get(name) == to_lowercase(name) \in SkillNames

(***************************************************************************)
(* Invocation extractor: ToolParser::extract_tools                         *)
(***************************************************************************)

RECURSIVE SkipWs(_, _)
\* while j < len && chars[j].is_whitespace() { j += 1; }
SkipWs(s, j) == IF j < Len(s) /\ is_whitespace(CharAt(s, j)) THEN SkipWs(s, j + 1) ELSE j

RECURSIVE SkipName(_, _)
\* while j < len && (uppercase || numeric || '_') { j += 1; }
SkipName(s, j) == IF j < Len(s) /\ IsNameChar(CharAt(s, j)) THEN SkipName(s, j + 1) ELSE j

\* a check that accepts no json fence
JsonFenceIsTool_Never(s, i) == FALSE

\* the "surgical check" on a json fence: NAME: follows the marker
JsonFenceIsTool(s, i) ==
    LET name_start == SkipWs(s, i + 7)
        peek == SkipName(s, name_start)
    IN  peek > name_start + 1 /\ peek < Len(s) /\ CharAt(s, peek) = ":"

\* a scan for which any fence opens an envelope
StartMarker_AnyFence(s, i) ==
    IF CharAt(s, i) = "[" THEN [len |-> 1, is_markdown |-> FALSE]
    ELSE IF MatchAt(s, i, Fence) THEN [len |-> 3, is_markdown |-> TRUE]
    ELSE [len |-> 0, is_markdown |-> FALSE]

\* step 1 of the scan: the start marker found at position i, if any
StartMarker(s, i) ==
    IF CharAt(s, i) = "[" THEN [len |-> 1, is_markdown |-> FALSE]
    ELSE IF MatchAt(s, i, Fence \o "tool_code") THEN [len |-> 12, is_markdown |-> TRUE]
    ELSE IF MatchAt(s, i, Fence \o "json") /\ JsonFenceIsTool(s, i) THEN [len |-> 7, is_markdown |-> TRUE]
    ELSE [len |-> 0, is_markdown |-> FALSE]

\* a scan that knows the double quote only
IsQuoteChar_DoubleOnly(c) == c = "\""

IsQuoteChar(c) == c \in {"\"", "'", Backtick}

\* an end of text that counts as the close of the envelope
AtEndOfText_Closes(current) == [found_end |-> TRUE, current |-> current]

\* while current < len runs out: found_end is still false
AtEndOfText(current) == [found_end |-> FALSE, current |-> current]

RECURSIVE ScanBody(_, _, _, _, _, _, _)
\* the inner while loop: returns found_end and the position it stopped at
ScanBody(s, current, depth, in_quote, quote_char, escape, is_markdown) ==
    IF ~(current < Len(s)) THEN AtEndOfText(current)
    ELSE LET c == CharAt(s, current) IN
      IF ~is_markdown
      THEN IF escape THEN ScanBody(s, current + 1, depth, in_quote, quote_char, FALSE, is_markdown)
           ELSE IF c = "\\" THEN ScanBody(s, current + 1, depth, in_quote, quote_char, TRUE, is_markdown)
           ELSE IF in_quote
                THEN ScanBody(s, current + 1, depth, c # quote_char, quote_char, escape, is_markdown)
           ELSE IF IsQuoteChar(c) THEN ScanBody(s, current + 1, depth, TRUE, c, escape, is_markdown)
           ELSE IF c = "[" THEN ScanBody(s, current + 1, depth + 1, in_quote, quote_char, escape, is_markdown)
           ELSE IF c = "]"
                THEN IF depth - 1 = 0
                     THEN [found_end |-> TRUE, current |-> current]
                     ELSE ScanBody(s, current + 1, depth - 1, in_quote, quote_char, escape, is_markdown)
           ELSE ScanBody(s, current + 1, depth, in_quote, quote_char, escape, is_markdown)
      ELSE IF MatchAt(s, current, Fence) /\ ~in_quote
           THEN [found_end |-> TRUE, current |-> current]
           ELSE IF escape THEN ScanBody(s, current + 1, depth, in_quote, quote_char, FALSE, is_markdown)
           ELSE IF c = "\\" THEN ScanBody(s, current + 1, depth, in_quote, quote_char, TRUE, is_markdown)
           ELSE IF in_quote
                THEN ScanBody(s, current + 1, depth, c # quote_char, quote_char, escape, is_markdown)
           ELSE IF IsQuoteChar(c) THEN ScanBody(s, current + 1, depth, TRUE, c, escape, is_markdown)
           ELSE ScanBody(s, current + 1, depth, in_quote, quote_char, escape, is_markdown)

RECURSIVE ExtractFrom(_, _, _)
\* the outer while loop of extract_tools, from position i with the tools found so far
ExtractFrom(s, i, tools) ==
    IF ~(i < Len(s)) THEN tools
    ELSE LET m == StartMarker(s, i) IN
      IF m.len > 0
      THEN LET name_start == SkipWs(s, i + m.len)
               j == SkipName(s, name_start)
           IN  IF j > name_start + 1 /\ j < Len(s) /\ CharAt(s, j) = ":"
               THEN LET name == Slice(s, name_start, j)
                        arg_start == j + 1
                        r == ScanBody(s, arg_start, 1, FALSE, "", FALSE, m.is_markdown)
                    IN  IF r.found_end
                        THEN LET arg == Trim(Slice(s, arg_start, r.current))
                                 next == IF m.is_markdown THEN r.current + 3 ELSE r.current + 1
                             IN  ExtractFrom(s, next,
                                     IF skill_get(name)
                                     THEN Append(tools, [name |-> name, arg |-> arg])
                                     ELSE tools)
                        ELSE ExtractFrom(s, i + 1, tools)
               ELSE ExtractFrom(s, i + 1, tools)
      ELSE ExtractFrom(s, i + 1, tools)

\* ToolParser::extract_tools(content, skill_loader)
extract_tools(content) == ExtractFrom(content, 0, <<>>)

(***************************************************************************)
(* Path normalisation (crates/core/src/path_utils.rs)                      *)
(***************************************************************************)

\* std::env::var("HOME") of the process the model describes
HOME == "/home/u"

\* std::env::var("OPENSPORE_ROOT"), unset: the default of get_app_root
OPENSPORE_ROOT == ".openspore"

\* expand_tilde
expand_tilde(path) ==
    IF ~Contains(path, "~") THEN path
    ELSE LET result == IF StartsWith(path, "~/")
                       THEN HOME \o "/" \o Slice(path, 2, Len(path))
                       ELSE path
         IN  ReplaceAll(result, " ~/", " " \o HOME \o "/")

\* PathBuf::is_absolute on a Unix path
is_absolute(p) == StartsWith(p, "/")

\* PathBuf::join: an absolute argument replaces the base, otherwise it is
\* pushed after a separator
path_join(base, p) ==
    IF is_absolute(p) THEN p
    ELSE IF EndsWith(base, "/") THEN base \o p
    ELSE base \o "/" \o p

\* get_app_root
get_app_root ==
    IF StartsWith(OPENSPORE_ROOT, "/") THEN OPENSPORE_ROOT
    ELSE IF StartsWith(OPENSPORE_ROOT, "~") THEN expand_tilde(OPENSPORE_ROOT)
    ELSE path_join(HOME, OPENSPORE_ROOT)

\* ensure_absolute(path).to_string_lossy().to_string()
ensure_absolute(path) ==
    LET p == expand_tilde(path)
    IN  IF is_absolute(p) THEN p ELSE path_join(get_app_root, p)

(***************************************************************************)
(* serde_json::from_str::<Value>, restricted to the values the model's     *)
(* arguments use: a string, a literal, an integer, or an object whose      *)
(* member values are of those kinds; escapes \" \\ \/ only.                *)
(***************************************************************************)

RECURSIVE JsonStringFrom(_, _, _)
\* the characters of a JSON string after its opening quote
JsonStringFrom(s, i, acc) ==
    IF ~(i < Len(s)) THEN [ok |-> FALSE, str |-> TRUE, val |-> "", next |-> i]
    ELSE LET c == CharAt(s, i) IN
      IF c = "\"" THEN [ok |-> TRUE, str |-> TRUE, val |-> acc, next |-> i + 1]
      ELSE IF c = "\\"
           THEN IF i + 1 < Len(s) /\ CharAt(s, i + 1) \in {"\"", "\\", "/"}
                THEN JsonStringFrom(s, i + 2, acc \o CharAt(s, i + 1))
                ELSE [ok |-> FALSE, str |-> TRUE, val |-> "", next |-> i]
      ELSE IF c \in {"\n", "\t", "\r"}
           THEN [ok |-> FALSE, str |-> TRUE, val |-> "", next |-> i]
      ELSE JsonStringFrom(s, i + 1, acc \o c)

RECURSIVE SkipDigits(_, _)
SkipDigits(s, i) == IF i < Len(s) /\ is_numeric(CharAt(s, i)) THEN SkipDigits(s, i + 1) ELSE i

\* a string, a literal or an integer starting at position i
JsonScalar(s, i) ==
    IF ~(i < Len(s)) THEN [ok |-> FALSE, str |-> FALSE, val |-> "", next |-> i]
    ELSE IF CharAt(s, i) = "\"" THEN JsonStringFrom(s, i + 1, "")
    ELSE IF MatchAt(s, i, "true") THEN [ok |-> TRUE, str |-> FALSE, val |-> "", next |-> i + 4]
    ELSE IF MatchAt(s, i, "false") THEN [ok |-> TRUE, str |-> FALSE, val |-> "", next |-> i + 5]
    ELSE IF MatchAt(s, i, "null") THEN [ok |-> TRUE, str |-> FALSE, val |-> "", next |-> i + 4]
    ELSE IF is_numeric(CharAt(s, i)) /\ (CharAt(s, i) # "0" \/ SkipDigits(s, i) = i + 1)
         THEN [ok |-> TRUE, str |-> FALSE, val |-> "", next |-> SkipDigits(s, i)]
    ELSE [ok |-> FALSE, str |-> FALSE, val |-> "", next |-> i]

RECURSIVE JsonMembers(_, _, _)
\* the members of an object from position i (just after '{' or ','), with
\* the members read so far; a later duplicate key replaces an earlier one
JsonMembers(s, i, fields) ==
    LET k0 == SkipWs(s, i)
        key == IF k0 < Len(s) /\ CharAt(s, k0) = "\""
               THEN JsonStringFrom(s, k0 + 1, "")
               ELSE [ok |-> FALSE, str |-> TRUE, val |-> "", next |-> k0]
        c0 == SkipWs(s, key.next)
        v == JsonScalar(s, SkipWs(s, c0 + 1))
        e0 == SkipWs(s, v.next)
        put == {g \in fields : g.key # key.val} \cup {[key |-> key.val, str |-> v.str, val |-> v.val]}
    IN  IF ~key.ok \/ ~(c0 < Len(s)) \/ CharAt(s, c0) # ":" \/ ~v.ok \/ ~(e0 < Len(s))
        THEN [ok |-> FALSE, fields |-> {}, next |-> i]
        ELSE IF CharAt(s, e0) = "}" THEN [ok |-> TRUE, fields |-> put, next |-> e0 + 1]
        ELSE IF CharAt(s, e0) = "," THEN JsonMembers(s, e0 + 1, put)
        ELSE [ok |-> FALSE, fields |-> {}, next |-> i]

\* serde_json::from_str::<Value>(arg): Ok(value) or Err
json_from_str(arg) ==
    LET i == SkipWs(arg, 0) IN
    IF i < Len(arg) /\ CharAt(arg, i) = "{"
    THEN LET o == IF SkipWs(arg, i + 1) < Len(arg) /\ CharAt(arg, SkipWs(arg, i + 1)) = "}"
                  THEN [ok |-> TRUE, fields |-> {}, next |-> SkipWs(arg, i + 1) + 1]
                  ELSE JsonMembers(arg, i + 1, {})
         IN  [ok |-> o.ok /\ SkipWs(arg, o.next) = Len(arg), object |-> TRUE, fields |-> o.fields]
    ELSE LET v == JsonScalar(arg, i)
         IN  [ok |-> v.ok /\ SkipWs(arg, v.next) = Len(arg), object |-> FALSE, fields |-> {}]

\* Value::get(key): Some(member) on an object that has the key
json_has(json, key) == json.object /\ \E f \in json.fields : f.key = key

json_get(json, key) == CHOOSE f \in json.fields : f.key = key

\* Result<String, _>
Ok(text) == [ok |-> TRUE, text |-> text]

Err(text) == [ok |-> FALSE, text |-> text]

\* Option<String>
None == [some |-> FALSE, val |-> ""]

Some(v) == [some |-> TRUE, val |-> v]

(***************************************************************************)
(* Write-safety gate (thinking.rs, State Verification)                     *)
(***************************************************************************)

destructive_tools == {"edit_file", "write_file", "diff_patch", "delegate"}

\* the path named by a parsed JSON argument: path, TargetFile or filename,
\* when the member is a string
json_path(json_arg) ==
    LET key == IF json_has(json_arg, "path") THEN "path"
               ELSE IF json_has(json_arg, "TargetFile") THEN "TargetFile"
               ELSE "filename"
    IN  IF json_has(json_arg, key) /\ json_get(json_arg, key).str
        THEN Some(json_get(json_arg, key).val)
        ELSE None

\* the path named by an argument that is not JSON: its first token without
\* surrounding double quotes
token_path(path) == IF path = "" THEN None ELSE Some(path)

\* the two branches of the extraction, on the outcome of the JSON parse
path_of(json_arg, arg) ==
    IF json_arg.ok THEN json_path(json_arg)
    ELSE token_path(trim_matches(FirstToken(arg), "\""))

\* the target path extracted from the argument of a destructive invocation
path_to_verify(name, arg) ==
    IF to_lowercase(name) = "delegate" THEN None
    ELSE path_of(json_from_str(arg), arg)

\* a gate that exempts no path
is_internal_None(absolute_path) == FALSE

\* internal system files the gate never verifies
is_internal(absolute_path) ==
    \/ EndsWith(absolute_path, "session_summary.md")
    \/ EndsWith(absolute_path, "LOGS.md")
    \/ Contains(absolute_path, "/workspace/context/")

\* the gate searching the path as written in the argument
GateNeedle_Raw(path) == path

\* the text the gate searches: the path after ensure_absolute
GateNeedle(path) == ensure_absolute(path)

\* the verification itself: the path is not an internal file and occurs
\* neither in the history nor in the system prompt
is_unverified(absolute_path, history_so_far, system_prompt) ==
    /\ ~is_internal(absolute_path)
    /\ ~Contains(history_so_far, absolute_path)
    /\ ~Contains(system_prompt, absolute_path)

\* the gate on the extracted path, if there is one
target_refused(target, history_so_far, system_prompt) ==
    /\ target.some
    /\ is_unverified(GateNeedle(target.val), history_so_far, system_prompt)

\* the gate's decision for one invocation against the history of earlier rounds
GateRefuses(name, arg, history_so_far, system_prompt) ==
    /\ to_lowercase(name) \in destructive_tools
    /\ target_refused(path_to_verify(name, arg), history_so_far, system_prompt)

\* a refusal that does not say what to read
RefusalText_Bare(absolute_path) == "ERROR: State Verification Refused."

\* the failure result of a refused invocation
RefusalText(absolute_path) ==
    "ERROR: State Verification Refused. You must use " \o Backtick \o "READ_FILE" \o Backtick
    \o " or " \o Backtick \o "LIST_DIR" \o Backtick \o " on '" \o absolute_path
    \o "' to verify its current state before attempting to modify it. Blind writes are forbidden for safety. (Tip: Use full absolute paths)"

(***************************************************************************)
(* Bounds and inputs of the model                                          *)
(***************************************************************************)

\* max_depth of the tool loop; the code fixes it at 24, the model runs the
\* same loop with a small limit
max_depth == 2

\* capacity of the observer channel; the terminal UI creates it with 32
ChanCap == 1

\* number of SwarmManager::spawn calls made in one process
NumCallers == 7

\* the system prompt built by ContextAssembler (opaque text to the loop)
system_prompt == "You are OpenSpore. Notes file: /home/u/n.md"

\* the prompts a user may send
UserPrompts == {"fix /tmp/a.txt"}

\* the texts the completion provider may return
Replies ==
    { "All done.",
      "[READ_FILE: /tmp/c.txt]",
      "[EDIT_FILE: /tmp/a.txt --find=x] then [WRITE_FILE: \"notes/b.txt\" --content=\"y\"]",
      "[EDIT_FILE: {\"path\": \"~/n.md\"}]",
      Fence \o "bash\nls\n" \o Fence }

\* the texts the provider may return when the model follows delegation: a
\* final text, a delegation, a read, an edit of a file never mentioned, and
\* a fenced block without a tool
DelegateReplies ==
    { "All done.",
      "[DELEGATE: \"count the files\" --role=\"Coder\"]",
      "[READ_FILE: /tmp/c.txt]",
      "[EDIT_FILE: /tmp/b.txt --find=x]",
      Fence \o "bash\nls\n" \o Fence }

\* extract_tools applied to each text the provider may return, computed once
RepliesTools == [r \in Replies \cup DelegateReplies |-> extract_tools(r)]

\* crate::parser::ToolParser::extract_tools(&content, &self.skill_loader) as
\* the loop calls it: the table above for a provider text, the extractor
\* itself for any other text
tools_to_run(text) == IF text \in Replies \cup DelegateReplies THEN RepliesTools[text] ELSE extract_tools(text)

\* the errors a failed completion call may carry (anyhow::Error::to_string)
CompletionErrors == {"API Error: 500 Internal Server Error (after 3 attempts)"}

\* the results Skill::execute may return
ToolResults == {[ok |-> TRUE, text |-> "ok"], [ok |-> FALSE, text |-> "failed"]}

(***************************************************************************)
(* Sub-agent marker IS_SPORE: prompt assembly and journal                  *)
(***************************************************************************)

\* ContextAssembler::build_system_prompt: with IS_SPORE set, the lean
\* sub-agent prompt, whose skill list is get_system_prompt(&["delegate"]),
\* every registered skill but delegate; otherwise the full prompt
build_system_prompt(spore) ==
    IF spore
    THEN "You are a specialized OpenSpore Sub-Agent.\nAvailable Skills:\n"
           \o "- [READ_FILE]\n- [EDIT_FILE]\n- [WRITE_FILE]\n- [DIFF_PATCH]\n"
    ELSE system_prompt

\* chrono::Local::now().format("%Y-%m-%d %H:%M:%S") at the start of the turn
now == "2026-01-01 00:00:00"

\* format!("\n[{}] User: {}\n", now, user_prompt)
start_log(prompt) == "\n[" \o now \o "] User: " \o prompt \o "\n"

\* format!("\nAI: {}\n", content)
end_log(text) == "\nAI: " \o text \o "\n"

\* MemorySystem::save_journal(entry): the journal is an append-only log
save_journal(log, entry) == Append(log, entry)

(***************************************************************************)
(* Results of SwarmManager::spawn and DelegateSkill::execute               *)
(***************************************************************************)

\* a subprocess that ended with exit status 0
DoneOutput == [exited |-> TRUE, code |-> 0, stdout |-> " done\n", stderr |-> ""]

\* a subprocess that ended with exit status 1
FailedOutput == [exited |-> TRUE, code |-> 1, stdout |-> "half\n", stderr |-> "boom"]

\* what a finished subprocess leaves: how it ended (an exit status, or the
\* signal that killed it), and its two streams
ChildOutputs ==
    { DoneOutput,
      [exited |-> TRUE, code |-> 0, stdout |-> "", stderr |-> "warn"],
      FailedOutput,
      [exited |-> FALSE, code |-> 9, stdout |-> "", stderr |-> ""] }

\* ExitStatus::success
status_success(output) == output.exited /\ output.code = 0

\* the Display of std::process::ExitStatus on Unix
exit_status_display(output) ==
    IF output.exited
    THEN "exit status: " \o ToString(output.code)
    ELSE "signal: " \o ToString(output.code)

\* a classification that takes any finished subprocess for a success
wait_output_AlwaysOk(output) == Ok(Trim(output.stdout))

\* Ok(Ok(output)): the trimmed stdout of a success, the "Sub-spore failed"
\* error otherwise
wait_output(output) ==
    IF status_success(output)
    THEN Ok(Trim(output.stdout))
    ELSE Err("Sub-spore failed (" \o exit_status_display(output) \o "):\n"
             \o Trim(output.stdout) \o "\n" \o output.stderr)

\* Ok(Err(e)): waiting for the subprocess failed
wait_error(e) == Err("Sub-spore error: " \o e)

\* Err(_): the timeout elapsed
wait_timeout == Err("Sub-spore timeout (10m)")

\* the io::Error texts of a failed Command::spawn and of a failed wait
SpawnErrors == {"No such file or directory (os error 2)"}

WaitErrors == {"Broken pipe (os error 32)"}

\* the values of spawn the loop is followed with: a success, an
\* unsuccessful exit, a timeout and a failed Command::spawn
SpawnResults ==
    {wait_output(DoneOutput), wait_output(FailedOutput), wait_timeout}
      \cup {Err(e) : e \in SpawnErrors}

\* the position of the first occurrence of pat in s, Len(s) when there is none
Find(s, pat) ==
    IF Contains(s, pat)
    THEN CHOOSE i \in 0..(Len(s) - Len(pat)) :
             /\ MatchAt(s, i, pat)
             /\ \A k \in 0..(i - 1) : ~MatchAt(s, k, pat)
    ELSE Len(s)

\* args.splitn(2, "--role=")
splitn2(args, pat) ==
    IF Contains(args, pat)
    THEN <<Slice(args, 0, Find(args, pat)), Slice(args, Find(args, pat) + Len(pat), Len(args))>>
    ELSE <<args>>

\* parts[0].trim().trim_matches('"').trim_matches('\'').trim()
delegate_task(args) ==
    Trim(trim_matches(trim_matches(Trim(splitn2(args, "--role=")[1]), "\""), "'"))

\* parts.get(1).map(..).unwrap_or("GeneralExpert")
delegate_role(args) ==
    IF Len(splitn2(args, "--role=")) > 1
    THEN trim_matches(trim_matches(Trim(splitn2(args, "--role=")[2]), "\""), "'")
    ELSE "GeneralExpert"

RECURSIVE json_escape(_)
\* the escapes serde_json writes inside a string
json_escape(s) ==
    IF s = "" THEN ""
    ELSE (CASE CharAt(s, 0) = "\"" -> "\\\""
            [] CharAt(s, 0) = "\\" -> "\\\\"
            [] CharAt(s, 0) = "\n" -> "\\n"
            [] CharAt(s, 0) = "\t" -> "\\t"
            [] CharAt(s, 0) = "\r" -> "\\r"
            [] OTHER -> CharAt(s, 0))
         \o json_escape(Tail(s))

\* Value::String(s).to_string()
json_string(s) == "\"" \o json_escape(s) \o "\""

\* a delegate skill that hands the failure of spawn on as its own
delegate_execute_Propagate(args, spawn_result) ==
    IF spawn_result.ok
    THEN Ok("{\"result\":" \o json_string(spawn_result.text)
            \o ",\"role\":" \o json_string(delegate_role(args)) \o ",\"success\":true}")
    ELSE Err("Delegation Failed: " \o spawn_result.text)

\* DelegateSkill::execute, given what swarm.spawn(task, role) returned: both
\* arms return Ok, with the JSON object written by serde_json (keys sorted)
delegate_execute(args, spawn_result) ==
    IF spawn_result.ok
    THEN Ok("{\"result\":" \o json_string(spawn_result.text)
            \o ",\"role\":" \o json_string(delegate_role(args)) \o ",\"success\":true}")
    ELSE Ok("{\"error\":" \o json_string("Delegation Failed: " \o spawn_result.text)
            \o ",\"role\":" \o json_string(delegate_role(args)) \o ",\"success\":false}")

\* the subprocess of a spawn call that has not started one
NoChild == [state |-> "none", output |-> [exited |-> TRUE, code |-> 0, stdout |-> "", stderr |-> ""]]

\* Duration::from_secs(180)
timeout_secs == 180

(***************************************************************************)
(* State                                                                   *)
(***************************************************************************)

VARIABLES
    pc,            \* position of think_internal
    observer,      \* tx.is_some()
    user_prompt,   \* the argument of think_internal
    messages,      \* Vec<Message>
    content,       \* the latest assistant text
    depth,         \* the round counter
    tasks,         \* tool_tasks of the current round
    tool_outputs,  \* the feedback block under construction
    err,           \* the error of a failed completion, until it is reported
    ret,           \* the value think_internal returned
    chan,          \* events queued in the observer channel
    rx_open,       \* the receiver has not been dropped
    emitted,       \* every event think_internal has sent, in order
    completions,   \* the outcome of every complete() call, in order
    rounds,        \* number of rounds whose tools were executed
    permits,       \* SWARM_SEMAPHORE: permits available
    waiters,       \* spawn calls queued on the semaphore, first come first
    call,          \* position of each spawn call
    child,         \* state of the subprocess of each spawn call
    api_pc,        \* position of complete()
    attempts,      \* the attempt counter of complete()
    responses,     \* the upstream responses complete() received, in order
    sleeps,        \* the backoff delays complete() slept, in milliseconds
    api_ret,       \* the value complete() returned
    is_spore,      \* std::env::var("IS_SPORE").is_ok() in this process
    journal,       \* the entries appended to context/LOGS.md, in order
    ex_pc,         \* position of the extractor run
    ex_arg,        \* the argument text under construction
    ex_n,          \* number of pieces ex_arg is made of
    ex_content,    \* the text handed to extract_tools
    extracted,     \* the value extract_tools returned
    sp_pc,         \* position of one spawn call, followed in detail
    sp_clock,      \* seconds spent in timeout(..) by that call
    sp_child,      \* the subprocess of that call
    sp_ret         \* the value that call returned

thinkVars == <<pc, observer, user_prompt, messages, content, depth, tasks, tool_outputs,
               err, ret, chan, rx_open, emitted, completions, rounds, is_spore, journal>>

swarmVars == <<permits, waiters, call, child>>

\* the state of one complete() call
apiVars == <<api_pc, attempts, responses, sleeps, api_ret>>

\* the state of one extract_tools call
extractVars == <<ex_pc, ex_arg, ex_n, ex_content, extracted>>

\* the state of one spawn call and its subprocess
spawnVars == <<sp_pc, sp_clock, sp_child, sp_ret>>

vars == <<thinkVars, swarmVars, apiVars, extractVars, spawnVars>>

Callers == 1..NumCallers

\* Message { role, content }
Message(role, text) == [role |-> role, content |-> text]

\* BrainEvent, one record shape for all variants
Event(type, d, name, arg, text, success) ==
    [type |-> type, depth |-> d, name |-> name, arg |-> arg, text |-> text, success |-> success]

ThoughtLayer(d, text) == Event("ThoughtLayer", d, "", "", text, TRUE)

ToolExecution(name, arg) == Event("ToolExecution", 0, name, arg, "", TRUE)

ToolResult(name, output, success) == Event("ToolResult", 0, name, "", output, success)

\* a FinalAnswer that carries no text
FinalAnswer_Empty(text) == Event("FinalAnswer", 0, "", "", "", TRUE)

FinalAnswer(text) == Event("FinalAnswer", 0, "", "", text, TRUE)

ErrorEvent(text) == Event("Error", 0, "", "", text, FALSE)

\* SWARM_SEMAPHORE = Semaphore::new(6)
SwarmPermits == 6

\* the state in which think_internal makes its first completion call, in a
\* process whose IS_SPORE marker is set or not: the start of the turn is
\* journalled and the two first messages are built
InitOf(spore) ==
    /\ is_spore = spore
    /\ pc = "complete"
    /\ observer \in BOOLEAN
    /\ user_prompt \in UserPrompts
    /\ journal = save_journal(<<>>, start_log(user_prompt))
    /\ messages = <<Message("system", build_system_prompt(is_spore)), Message("user", user_prompt)>>
    /\ content = ""
    /\ depth = 0
    /\ tasks = <<>>
    /\ tool_outputs = ""
    /\ err = ""
    /\ ret = None
    /\ chan = <<>>
    /\ rx_open = observer
    /\ emitted = <<>>
    /\ completions = <<>>
    /\ rounds = 0
    /\ permits = SwarmPermits
    /\ waiters = <<>>
    /\ call = [c \in Callers |-> "idle"]
    /\ child = [c \in Callers |-> "none"]
    /\ api_pc = "start"
    /\ attempts = 0
    /\ responses = <<>>
    /\ sleeps = <<>>
    /\ api_ret = [ok |-> FALSE, text |-> ""]
    /\ ex_pc = "build"
    /\ ex_arg = ""
    /\ ex_n = 0
    /\ ex_content = ""
    /\ extracted = <<>>
    /\ sp_pc = "start"
    /\ sp_clock = 0
    /\ sp_child = NoChild
    /\ sp_ret = [ok |-> FALSE, text |-> ""]

\* the agent run by its user: IS_SPORE is not set
Init == InitOf(FALSE)

(***************************************************************************)
(* Observer channel: tokio::sync::mpsc::channel(ChanCap)                   *)
(***************************************************************************)

\* Sender::send(e).await completes when the channel has a free slot (the
\* event is queued) or the receiver is gone (the event is dropped); without
\* an observer nothing is sent
CanSend == ~observer \/ ~rx_open \/ Len(chan) < ChanCap

\* let _ = t.send(e).await, guarded by if let Some(t) = &tx
Send(e) ==
    /\ CanSend
    /\ chan' = IF observer /\ rx_open THEN Append(chan, e) ELSE chan
    /\ emitted' = IF observer THEN Append(emitted, e) ELSE emitted
    /\ UNCHANGED rx_open

\* the observer takes the next event (rx_events.try_recv in run_app)
ObserverRecv ==
    /\ rx_open
    /\ chan # <<>>
    /\ chan' = Tail(chan)
    /\ UNCHANGED <<pc, observer, is_spore, user_prompt, journal, messages, content, depth, tasks, tool_outputs,
                   err, ret, rx_open, emitted, completions, rounds, swarmVars, apiVars, extractVars, spawnVars>>

\* the observer goes away: run_app returns and drops the receiver
ObserverClose ==
    /\ rx_open
    /\ rx_open' = FALSE
    /\ chan' = <<>>
    /\ UNCHANGED <<pc, observer, is_spore, user_prompt, journal, messages, content, depth, tasks, tool_outputs,
                   err, ret, emitted, completions, rounds, swarmVars, apiVars, extractVars, spawnVars>>

(***************************************************************************)
(* The thinking loop: Brain::think_internal                                *)
(***************************************************************************)

\* the notice appended when the depth limit is hit
Notice == "\n\n[SYSTEM: Maximum thinking depth reached. Please summarize your findings.]"

\* the corrective turn of the self-correction path
CorrectiveText ==
    "SYSTEM ERROR: You attempted to use a tool using Markdown code blocks (" \o Fence
    \o "). THIS IS INVALID. \n\nREQUIRED SYNTAX: " \o Backtick \o "[TOOL_NAME: argument]" \o Backtick
    \o "\n\nExample: " \o Backtick \o "[DELEGATE: \"task\"]" \o Backtick
    \o "\n\nPlease retry immediately with the correct syntax."

\* the instruction that ends every feedback message
FeedbackSuffix ==
    "\n\nProcess the results. If more actions needed, use tools. If done, provide final answer."

\* the limit test written with > instead of >=
DepthLimitHit_OffByOne(d) == d > max_depth

\* if depth >= max_depth
DepthLimitHit(d) == d >= max_depth

\* a check that knows only the tool_code fence
HasMarkdownTool_ToolCodeOnly(text) == Contains(text, Fence \o "tool_code")

\* the hallucinated tool formats that trigger self-correction
HasMarkdownTool(text) ==
    \/ Contains(text, Fence \o "tool_code")
    \/ Contains(text, Fence \o "python")
    \/ Contains(text, Fence \o "javascript")
    \/ Contains(text, Fence \o "bash")

RECURSIVE JoinContents(_)
\* messages.iter().map(|m| m.content).collect().join("\n")
JoinContents(msgs) ==
    IF msgs = <<>> THEN ""
    ELSE IF Len(msgs) = 1 THEN msgs[1].content
    ELSE msgs[1].content \o "\n" \o JoinContents(Tail(msgs))

\* an entry assigned to the block instead of pushed onto it
PushEntry_Assign(outputs, entry) == entry

\* tool_outputs.push_str(entry)
PushEntry(outputs, entry) == outputs \o entry

\* a result entry without its label
OutputEntry_Unlabelled(name, output) == output \o "\n"

\* format!("\n--- Output from {} ---\n{}\n", name, output)
OutputEntry(name, output) == "\n--- Output from " \o name \o " ---\n" \o output \o "\n"

\* an error that leaves no entry in the feedback block
ErrorEntry_Dropped(name, e) == ""

\* format!("\n--- Error from {} ---\n{}\n", name, e)
ErrorEntry(name, e) == "\n--- Error from " \o name \o " ---\n" \o e \o "\n"

\* the turns written over the last two messages instead of pushed
PushTurns_Overwrite(msgs, assistant_text, user_text) ==
    SubSeq(msgs, 1, Len(msgs) - 2)
    \o <<Message("assistant", assistant_text), Message("user", user_text)>>

\* a corrective or feedback turn pushed without the assistant text
PushTurns_UserOnly(msgs, assistant_text, user_text) ==
    Append(msgs, Message("user", user_text))

\* the two turns pushed after a round: the assistant text, then a user turn
PushTurns(msgs, assistant_text, user_text) ==
    msgs \o <<Message("assistant", assistant_text), Message("user", user_text)>>

\* a gate that also searches the assistant text of the current round
NewTask_SeesReply(inv, history_so_far) ==
    [ name |-> inv.name,
      arg |-> inv.arg,
      refused |-> GateRefuses(inv.name, inv.arg, history_so_far \o "\n" \o content,
                              build_system_prompt(is_spore)),
      st |-> "new",
      job |-> [ok |-> FALSE, text |-> ""],
      result |-> [ok |-> FALSE, text |-> ""] ]

\* the future pushed on tool_tasks for one invocation
NewTask(inv, history_so_far) ==
    [ name |-> inv.name,
      arg |-> inv.arg,
      refused |-> GateRefuses(inv.name, inv.arg, history_so_far, build_system_prompt(is_spore)),
      st |-> "new",
      job |-> [ok |-> FALSE, text |-> ""],
      result |-> [ok |-> FALSE, text |-> ""] ]

\* a collection loop that stops at the first result
AllTasksDone_First(ts) == \E i \in 1..Len(ts) : ts[i].st = "done"

\* a collection loop that does not wait for any result
AllTasksDone_NoWait(ts) == TRUE

\* the collection loop is over: tool_tasks.next() returned None
AllTasksDone(ts) == \A i \in 1..Len(ts) : ts[i].st = "done"

\* the log entry of one complete() call: its outcome, its text and the
\* number of invocations the extractor finds in the text
Completion(ok, text) ==
    [ok |-> ok, text |-> text, tools |-> IF ok THEN Len(tools_to_run(text)) ELSE 0]

\* 2. Initial completion, Ok(c)
CompleteOk(reply) ==
    /\ pc = "complete"
    /\ content' = reply
    /\ completions' = Append(completions, Completion(TRUE, reply))
    /\ pc' = "top"
    /\ UNCHANGED <<observer, is_spore, user_prompt, journal, messages, depth, tasks, tool_outputs, err, ret,
                   chan, rx_open, emitted, rounds, swarmVars, apiVars, extractVars, spawnVars>>

\* 2. Initial completion, Err(e)
CompleteErr(e) ==
    /\ pc = "complete"
    /\ err' = e
    /\ completions' = Append(completions, Completion(FALSE, e))
    /\ pc' = "report_init_error"
    /\ UNCHANGED <<observer, is_spore, user_prompt, journal, messages, content, depth, tasks, tool_outputs, ret,
                   chan, rx_open, emitted, rounds, swarmVars, apiVars, extractVars, spawnVars>>

\* the Error event of the initial completion, then return format!("Errors: {}", e)
ReportInitError ==
    /\ pc = "report_init_error"
    /\ Send(ErrorEvent(err))
    /\ ret' = Some("Errors: " \o err)
    /\ pc' = "returned"
    /\ UNCHANGED <<observer, is_spore, user_prompt, journal, messages, content, depth, tasks, tool_outputs, err,
                   completions, rounds, swarmVars, apiVars, extractVars, spawnVars>>

\* top of the loop with the depth limit hit: append the notice and break
DepthExceeded ==
    /\ pc = "top"
    /\ DepthLimitHit(depth)
    /\ content' = content \o Notice
    /\ pc' = "final"
    /\ UNCHANGED <<observer, is_spore, user_prompt, journal, messages, depth, tasks, tool_outputs, err, ret,
                   chan, rx_open, emitted, completions, rounds, swarmVars, apiVars, extractVars, spawnVars>>

\* top of the loop below the limit: notify the observer of the thinking layer
EmitThoughtLayer ==
    /\ pc = "top"
    /\ ~DepthLimitHit(depth)
    /\ Send(ThoughtLayer(depth, content))
    /\ pc' = "extract"
    /\ UNCHANGED <<observer, is_spore, user_prompt, journal, messages, content, depth, tasks, tool_outputs, err,
                   ret, completions, rounds, swarmVars, apiVars, extractVars, spawnVars>>

\* no tool extracted but a Markdown tool block: push the corrective turns
SelfCorrect ==
    /\ pc = "extract"
    /\ tools_to_run(content) = <<>>
    /\ HasMarkdownTool(content)
    /\ messages' = PushTurns(messages, content, CorrectiveText)
    /\ pc' = "correcting"
    /\ UNCHANGED <<observer, is_spore, user_prompt, journal, content, depth, tasks, tool_outputs, err, ret,
                   chan, rx_open, emitted, completions, rounds, swarmVars, apiVars, extractVars, spawnVars>>

\* the re-completion of the self-correction path, Ok(new_content)
SelfCorrectOk(reply) ==
    /\ pc = "correcting"
    /\ content' = reply
    /\ depth' = depth + 1
    /\ completions' = Append(completions, Completion(TRUE, reply))
    /\ pc' = "top"
    /\ UNCHANGED <<observer, is_spore, user_prompt, journal, messages, tasks, tool_outputs, err, ret,
                   chan, rx_open, emitted, rounds, swarmVars, apiVars, extractVars, spawnVars>>

\* the re-completion of the self-correction path, Err(e): logged, then break
SelfCorrectErr(e) ==
    /\ pc = "correcting"
    /\ completions' = Append(completions, Completion(FALSE, e))
    /\ pc' = "final"
    /\ UNCHANGED <<observer, is_spore, user_prompt, journal, messages, content, depth, tasks, tool_outputs, err,
                   ret, chan, rx_open, emitted, rounds, swarmVars, apiVars, extractVars, spawnVars>>

\* if tools_to_run.is_empty() { break; }
NoTools ==
    /\ pc = "extract"
    /\ tools_to_run(content) = <<>>
    /\ ~HasMarkdownTool(content)
    /\ pc' = "final"
    /\ UNCHANGED <<observer, is_spore, user_prompt, journal, messages, content, depth, tasks, tool_outputs, err,
                   ret, chan, rx_open, emitted, completions, rounds, swarmVars, apiVars, extractVars, spawnVars>>

\* the for loop over tools_to_run: the gate decides each invocation against
\* the history of the earlier rounds and one future per invocation is pushed
BuildTasks ==
    /\ pc = "extract"
    /\ tools_to_run(content) # <<>>
    /\ LET tools == tools_to_run(content)
           history_so_far == JoinContents(messages)
       IN  tasks' = [i \in 1..Len(tools) |-> NewTask(tools[i], history_so_far)]
    /\ tool_outputs' = "\n<TOOL_OUTPUTS>\n"
    /\ rounds' = rounds + 1
    /\ pc' = "tools"
    /\ UNCHANGED <<observer, is_spore, user_prompt, journal, messages, content, depth, err, ret,
                   chan, rx_open, emitted, completions, swarmVars, apiVars, extractVars, spawnVars>>

\* a refused invocation: its future yields the refusal, the skill is not run
TaskRefused(i) ==
    /\ pc = "tools"
    /\ i \in 1..Len(tasks)
    /\ tasks[i].st = "new"
    /\ tasks[i].refused
    /\ \E target \in {path_to_verify(tasks[i].name, tasks[i].arg)} :
         \E absolute_path \in {GateNeedle(target.val)} :
           tool_outputs' = PushEntry(tool_outputs,
                               ErrorEntry(tasks[i].name, RefusalText(absolute_path)))
    /\ tasks' = [tasks EXCEPT ![i].st = "done"]
    /\ UNCHANGED <<pc, observer, is_spore, user_prompt, journal, messages, content, depth, err, ret,
                   chan, rx_open, emitted, completions, rounds, swarmVars, apiVars, extractVars, spawnVars>>

\* first poll of an admitted invocation: ToolExecution is sent and
\* skill.execute starts; a name without a skill yields "Unknown tool"
TaskStart(i) ==
    /\ pc = "tools"
    /\ i \in 1..Len(tasks)
    /\ tasks[i].st = "new"
    /\ ~tasks[i].refused
    /\ IF skill_get(tasks[i].name)
       THEN /\ Send(ToolExecution(tasks[i].name, tasks[i].arg))
            /\ tasks' = [tasks EXCEPT ![i].st = "exec"]
            /\ UNCHANGED tool_outputs
       ELSE /\ tool_outputs' = PushEntry(tool_outputs,
                      ErrorEntry(tasks[i].name, "Unknown tool '" \o tasks[i].name \o "'"))
            /\ tasks' = [tasks EXCEPT ![i].st = "done"]
            /\ UNCHANGED <<chan, rx_open, emitted>>
    /\ UNCHANGED <<pc, observer, is_spore, user_prompt, journal, messages, content, depth, err, ret,
                   completions, rounds, swarmVars, apiVars, extractVars, spawnVars>>

\* skill.execute(&arg).await returns, for a skill other than delegate
TaskExec(i, r) ==
    /\ pc = "tools"
    /\ i \in 1..Len(tasks)
    /\ tasks[i].st = "exec"
    /\ to_lowercase(tasks[i].name) # "delegate"
    /\ tasks' = [tasks EXCEPT ![i].st = "result", ![i].result = r]
    /\ UNCHANGED <<pc, observer, is_spore, user_prompt, journal, messages, content, depth, tool_outputs, err, ret,
                   chan, rx_open, emitted, completions, rounds, swarmVars, apiVars, extractVars, spawnVars>>

\* DelegateSkill::execute returns: swarm.spawn(task, role) was called, spawned
\* a sub-agent unless Command::spawn failed, and returned spawn_result (kept
\* in job, the value the match in execute looks at)
DelegateExec(i, spawn_result) ==
    /\ pc = "tools"
    /\ i \in 1..Len(tasks)
    /\ tasks[i].st = "exec"
    /\ to_lowercase(tasks[i].name) = "delegate"
    /\ tasks' = [tasks EXCEPT ![i].st = "result",
                              ![i].job = spawn_result,
                              ![i].result = delegate_execute(tasks[i].arg, spawn_result)]
    /\ UNCHANGED <<pc, observer, is_spore, user_prompt, journal, messages, content, depth, tool_outputs, err, ret,
                   chan, rx_open, emitted, completions, rounds, swarmVars, apiVars, extractVars, spawnVars>>

\* ToolResult is sent, the future completes and the collection loop appends
\* its labelled entry
TaskFinish(i) ==
    /\ pc = "tools"
    /\ i \in 1..Len(tasks)
    /\ tasks[i].st = "result"
    /\ Send(ToolResult(tasks[i].name, tasks[i].result.text, tasks[i].result.ok))
    /\ tool_outputs' = PushEntry(tool_outputs,
           IF tasks[i].result.ok
           THEN OutputEntry(tasks[i].name, tasks[i].result.text)
           ELSE ErrorEntry(tasks[i].name, tasks[i].result.text))
    /\ tasks' = [tasks EXCEPT ![i].st = "done"]
    /\ UNCHANGED <<pc, observer, is_spore, user_prompt, journal, messages, content, depth, err, ret,
                   completions, rounds, swarmVars, apiVars, extractVars, spawnVars>>

\* Feedback Loop: the block is closed and the two turns are pushed
Feedback ==
    /\ pc = "tools"
    /\ AllTasksDone(tasks)
    /\ messages' = PushTurns(messages, content,
                             tool_outputs \o "\n</TOOL_OUTPUTS>\n" \o FeedbackSuffix)
    /\ tool_outputs' = tool_outputs \o "\n</TOOL_OUTPUTS>\n"
    /\ pc' = "recomplete"
    /\ UNCHANGED <<observer, is_spore, user_prompt, journal, content, depth, tasks, err, ret,
                   chan, rx_open, emitted, completions, rounds, swarmVars, apiVars, extractVars, spawnVars>>

\* the re-completion after the feedback, Ok(new_content); depth += 1
RecompleteOk(reply) ==
    /\ pc = "recomplete"
    /\ content' = reply
    /\ depth' = depth + 1
    /\ completions' = Append(completions, Completion(TRUE, reply))
    /\ pc' = "top"
    /\ UNCHANGED <<observer, is_spore, user_prompt, journal, messages, tasks, tool_outputs, err, ret,
                   chan, rx_open, emitted, rounds, swarmVars, apiVars, extractVars, spawnVars>>

\* the re-completion after the feedback, Err(e)
RecompleteErr(e) ==
    /\ pc = "recomplete"
    /\ err' = e
    /\ completions' = Append(completions, Completion(FALSE, e))
    /\ pc' = "report_loop_error"
    /\ UNCHANGED <<observer, is_spore, user_prompt, journal, messages, content, depth, tasks, tool_outputs, ret,
                   chan, rx_open, emitted, rounds, swarmVars, apiVars, extractVars, spawnVars>>

\* the Error event of a failed re-completion, then break
ReportLoopError ==
    /\ pc = "report_loop_error"
    /\ Send(ErrorEvent(err))
    /\ pc' = "final"
    /\ UNCHANGED <<observer, is_spore, user_prompt, journal, messages, content, depth, tasks, tool_outputs, err,
                   ret, completions, rounds, swarmVars, apiVars, extractVars, spawnVars>>

\* after the loop: the FinalAnswer notification, the result of the turn is
\* journalled, then the text is returned
EmitFinalAnswer ==
    /\ pc = "final"
    /\ Send(FinalAnswer(content))
    /\ journal' = save_journal(journal, end_log(content))
    /\ ret' = Some(content)
    /\ pc' = "returned"
    /\ UNCHANGED <<observer, is_spore, user_prompt, messages, content, depth, tasks, tool_outputs, err,
                   completions, rounds, swarmVars, apiVars, extractVars, spawnVars>>

Next ==
    \/ \E reply \in Replies : CompleteOk(reply)
    \/ \E e \in CompletionErrors : CompleteErr(e)
    \/ ReportInitError
    \/ DepthExceeded
    \/ EmitThoughtLayer
    \/ SelfCorrect
    \/ \E reply \in Replies : SelfCorrectOk(reply)
    \/ \E e \in CompletionErrors : SelfCorrectErr(e)
    \/ NoTools
    \/ BuildTasks
    \/ \E i \in 1..Len(tasks) : TaskRefused(i)
    \/ \E i \in 1..Len(tasks) : TaskStart(i)
    \/ \E i \in 1..Len(tasks), r \in ToolResults : TaskExec(i, r)
    \/ \E i \in 1..Len(tasks) : TaskFinish(i)
    \/ Feedback
    \/ \E reply \in Replies : RecompleteOk(reply)
    \/ \E e \in CompletionErrors : RecompleteErr(e)
    \/ ReportLoopError
    \/ EmitFinalAnswer
    \/ ObserverRecv
    \/ ObserverClose

\* one think_internal invocation with its observer
Spec == Init /\ [][Next]_vars

\* a step of think_internal that waits for something or sends an event:
\* every step but the choice made on the extracted invocations
ThinkStep ==
    \/ \E reply \in Replies : CompleteOk(reply)
    \/ \E e \in CompletionErrors : CompleteErr(e)
    \/ ReportInitError
    \/ DepthExceeded
    \/ EmitThoughtLayer
    \/ \E reply \in Replies : SelfCorrectOk(reply)
    \/ \E e \in CompletionErrors : SelfCorrectErr(e)
    \/ \E i \in 1..Len(tasks) : TaskRefused(i)
    \/ \E i \in 1..Len(tasks) : TaskStart(i)
    \/ \E i \in 1..Len(tasks), r \in ToolResults : TaskExec(i, r)
    \/ \E i \in 1..Len(tasks) : TaskFinish(i)
    \/ Feedback
    \/ \E reply \in Replies : RecompleteOk(reply)
    \/ \E e \in CompletionErrors : RecompleteErr(e)
    \/ ReportLoopError
    \/ EmitFinalAnswer

\* one think_internal invocation whose awaits return: every completion
\* call and every tool execution comes back and the task is polled again
\* (a step of think_internal that stays possible is taken), and the
\* observer keeps draining its channel, as run_app does with try_recv on
\* every turn of its loop. At the choice on the extracted invocations one
\* of SelfCorrect, NoTools and BuildTasks is always possible and each
\* leaves that position, so weak fairness of the three is []<>(pc # "extract")
SpecLive ==
    /\ Init /\ [][Next]_vars
    /\ WF_vars(ThinkStep)
    /\ WF_vars(ObserverRecv)
    /\ []<>(pc # "extract")

\* think_internal in a process that is the agent itself, or a sub-agent:
\* Commands::Think sets IS_SPORE and calls think, which has no observer
InitDelegate == InitOf(FALSE) \/ (InitOf(TRUE) /\ ~observer)

NextDelegate ==
    \/ \E reply \in DelegateReplies : CompleteOk(reply)
    \/ \E e \in CompletionErrors : CompleteErr(e)
    \/ ReportInitError
    \/ DepthExceeded
    \/ EmitThoughtLayer
    \/ SelfCorrect
    \/ \E reply \in DelegateReplies : SelfCorrectOk(reply)
    \/ \E e \in CompletionErrors : SelfCorrectErr(e)
    \/ NoTools
    \/ BuildTasks
    \/ \E i \in 1..Len(tasks) : TaskRefused(i)
    \/ \E i \in 1..Len(tasks) : TaskStart(i)
    \/ \E i \in 1..Len(tasks), r \in ToolResults : TaskExec(i, r)
    \/ \E i \in 1..Len(tasks), spawn_result \in SpawnResults : DelegateExec(i, spawn_result)
    \/ \E i \in 1..Len(tasks) : TaskFinish(i)
    \/ Feedback
    \/ \E reply \in DelegateReplies : RecompleteOk(reply)
    \/ \E e \in CompletionErrors : RecompleteErr(e)
    \/ ReportLoopError
    \/ EmitFinalAnswer
    \/ ObserverRecv
    \/ ObserverClose

SpecDelegate == InitDelegate /\ [][NextDelegate]_vars

\* the texts the provider may return when the model writes to files it has
\* not read: a final text, a read and a write of the same unmentioned file
\* in one reply, a write by a relative path, a delegation that names a
\* file, writes to the three kinds of internal files, and a fenced block
GateReplies ==
    { "All done.",
      "[READ_FILE: /tmp/z.txt] [WRITE_FILE: /tmp/z.txt --content=y]",
      "[WRITE_FILE: notes/b.txt --content=y]",
      "[DELEGATE: /tmp/q.txt --role=Coder]",
      "[WRITE_FILE: a/session_summary.md]",
      "[EDIT_FILE: {\"path\": \"/var/LOGS.md\"}]",
      "[DIFF_PATCH: /srv/workspace/context/n.md]",
      Fence \o "bash\nls\n" \o Fence }

\* think_internal called without an observer
InitGate == Init /\ ~observer

NextGate ==
    \/ \E reply \in GateReplies : CompleteOk(reply)
    \/ \E e \in CompletionErrors : CompleteErr(e)
    \/ ReportInitError
    \/ DepthExceeded
    \/ EmitThoughtLayer
    \/ SelfCorrect
    \/ \E reply \in GateReplies : SelfCorrectOk(reply)
    \/ \E e \in CompletionErrors : SelfCorrectErr(e)
    \/ NoTools
    \/ BuildTasks
    \/ \E i \in 1..Len(tasks) : TaskRefused(i)
    \/ \E i \in 1..Len(tasks) : TaskStart(i)
    \/ \E i \in 1..Len(tasks), r \in ToolResults : TaskExec(i, r)
    \/ \E i \in 1..Len(tasks), spawn_result \in SpawnResults : DelegateExec(i, spawn_result)
    \/ \E i \in 1..Len(tasks) : TaskFinish(i)
    \/ Feedback
    \/ \E reply \in GateReplies : RecompleteOk(reply)
    \/ \E e \in CompletionErrors : RecompleteErr(e)
    \/ ReportLoopError
    \/ EmitFinalAnswer

\* think_internal on replies that try the write-safety gate
SpecGate == InitGate /\ [][NextGate]_vars

(***************************************************************************)
(* Bounded sub-agent spawner: SwarmManager::spawn                          *)
(***************************************************************************)

\* a permit that is forgotten instead of dropped
ReleasePermit_Leak(p) == p

\* the permit is given back when _permit goes out of scope
ReleasePermit(p) == p + 1

\* spawn is entered: SWARM_SEMAPHORE.acquire() queues the call.  The calls
\* are interchangeable, so they enter in the order of their index.
SpawnCall(c) ==
    /\ call[c] = "idle"
    /\ \A d \in Callers : d < c => call[d] # "idle"
    /\ call' = [call EXCEPT ![c] = "queued"]
    /\ waiters' = Append(waiters, c)
    /\ UNCHANGED <<permits, child, thinkVars, apiVars, extractVars, spawnVars>>

\* the first queued call gets a permit and Command::spawn succeeds; there
\* is no suspension point between the two
AcquireSpawn(c) ==
    /\ call[c] = "queued"
    /\ waiters # <<>> /\ Head(waiters) = c
    /\ permits > 0
    /\ permits' = permits - 1
    /\ waiters' = Tail(waiters)
    /\ call' = [call EXCEPT ![c] = "waiting"]
    /\ child' = [child EXCEPT ![c] = "running"]
    /\ UNCHANGED <<thinkVars, apiVars, extractVars, spawnVars>>

\* the first queued call gets a permit and Command::spawn fails: the `?`
\* returns the error and drops the permit
AcquireSpawnError(c) ==
    /\ call[c] = "queued"
    /\ waiters # <<>> /\ Head(waiters) = c
    /\ permits > 0
    /\ permits' = ReleasePermit(permits - 1)
    /\ waiters' = Tail(waiters)
    /\ call' = [call EXCEPT ![c] = "returned"]
    /\ UNCHANGED <<child, thinkVars, apiVars, extractVars, spawnVars>>

\* the subprocess terminates, whether or not its spawn call still waits
ChildExit(c) ==
    /\ child[c] = "running"
    /\ child' = [child EXCEPT ![c] = "exited"]
    /\ UNCHANGED <<permits, waiters, call, thinkVars, apiVars, extractVars, spawnVars>>

\* Ok(Ok(output)): the output of the exited subprocess is returned, as
\* Ok(stdout) or as the "Sub-spore failed" error by its exit status
WaitOutput(c) ==
    /\ call[c] = "waiting"
    /\ child[c] = "exited"
    /\ permits' = ReleasePermit(permits)
    /\ call' = [call EXCEPT ![c] = "returned"]
    /\ UNCHANGED <<waiters, child, thinkVars, apiVars, extractVars, spawnVars>>

\* Ok(Err(e)): wait_with_output fails
WaitError(c) ==
    /\ call[c] = "waiting"
    /\ permits' = ReleasePermit(permits)
    /\ call' = [call EXCEPT ![c] = "returned"]
    /\ UNCHANGED <<waiters, child, thinkVars, apiVars, extractVars, spawnVars>>

\* Err(_): 180 seconds passed; the wait future is dropped, and tokio's
\* Child is not killed on drop, so the subprocess keeps running
WaitTimeout(c) ==
    /\ call[c] = "waiting"
    /\ child[c] = "running"
    /\ permits' = ReleasePermit(permits)
    /\ call' = [call EXCEPT ![c] = "returned"]
    /\ UNCHANGED <<waiters, child, thinkVars, apiVars, extractVars, spawnVars>>

NextSwarm ==
    \/ \E c \in Callers : SpawnCall(c)
    \/ \E c \in Callers : AcquireSpawn(c)
    \/ \E c \in Callers : AcquireSpawnError(c)
    \/ \E c \in Callers : ChildExit(c)
    \/ \E c \in Callers : WaitOutput(c)
    \/ \E c \in Callers : WaitError(c)
    \/ \E c \in Callers : WaitTimeout(c)

\* the spawner alone: no thinking loop runs in the model of the pool
InitSwarm == Init /\ ~observer

\* NumCallers concurrent spawn calls in one process
SpecSwarm == InitSwarm /\ [][NextSwarm]_vars

\* the first queued call is handed its permit and spawns, or fails to
AcquireStep(c) == AcquireSpawn(c) \/ AcquireSpawnError(c)

\* timeout(180 s, wait_with_output) returns, one of its three ways
WaitReturns(c) == WaitOutput(c) \/ WaitError(c) \/ WaitTimeout(c)

\* the pool with its awaits returning: the semaphore hands a free permit
\* to the call at the head of its queue, and the wait of every call ends,
\* with the subprocess or at the timeout; a subprocess need not exit and
\* no further call need be made.  The calls are finitely many and none
\* starts again, so fairness to the pool as a whole is all that is assumed.
SpecSwarmLive ==
    /\ InitSwarm /\ [][NextSwarm]_vars
    /\ WF_vars(\E c \in Callers : AcquireStep(c))
    /\ WF_vars(\E c \in Callers : WaitReturns(c))

(***************************************************************************)
(* One spawn call in detail: the subprocess, its output and the timeout    *)
(***************************************************************************)

\* the permit is held (see AcquireSpawn) and Command::spawn succeeds
SpawnChild ==
    /\ sp_pc = "start"
    /\ sp_child' = [NoChild EXCEPT !.state = "running"]
    /\ sp_clock' = 0
    /\ sp_pc' = "waiting"
    /\ UNCHANGED <<sp_ret, thinkVars, swarmVars, apiVars, extractVars>>

\* Command::spawn fails: the `?` returns the error
SpawnChildError(e) ==
    /\ sp_pc = "start"
    /\ sp_ret' = Err(e)
    /\ sp_pc' = "returned"
    /\ UNCHANGED <<sp_clock, sp_child, thinkVars, swarmVars, apiVars, extractVars>>

\* the subprocess ends and its streams are closed, at any time
ChildFinish(output) ==
    /\ sp_child.state = "running"
    /\ sp_child' = [state |-> "exited", output |-> output]
    /\ UNCHANGED <<sp_pc, sp_clock, sp_ret, thinkVars, swarmVars, apiVars, extractVars>>

\* reading the streams of the subprocess fails
ChildWaitFails ==
    /\ sp_pc = "waiting"
    /\ sp_child.state = "running"
    /\ sp_child' = [sp_child EXCEPT !.state = "wait_failed"]
    /\ UNCHANGED <<sp_pc, sp_clock, sp_ret, thinkVars, swarmVars, apiVars, extractVars>>

\* one second passes while timeout(..) waits for the running subprocess
Tick ==
    /\ sp_pc = "waiting"
    /\ sp_child.state = "running"
    /\ sp_clock < timeout_secs
    /\ sp_clock' = sp_clock + 1
    /\ UNCHANGED <<sp_pc, sp_child, sp_ret, thinkVars, swarmVars, apiVars, extractVars>>

\* Ok(Ok(output))
ReturnOutput ==
    /\ sp_pc = "waiting"
    /\ sp_child.state = "exited"
    /\ sp_ret' = wait_output(sp_child.output)
    /\ sp_pc' = "returned"
    /\ UNCHANGED <<sp_clock, sp_child, thinkVars, swarmVars, apiVars, extractVars>>

\* Ok(Err(e))
ReturnWaitError(e) ==
    /\ sp_pc = "waiting"
    /\ sp_child.state = "wait_failed"
    /\ sp_ret' = wait_error(e)
    /\ sp_pc' = "returned"
    /\ UNCHANGED <<sp_clock, sp_child, thinkVars, swarmVars, apiVars, extractVars>>

\* Err(_): the 180 seconds have passed and the subprocess still runs; it is
\* not killed
ReturnTimeout ==
    /\ sp_pc = "waiting"
    /\ sp_child.state = "running"
    /\ sp_clock = timeout_secs
    /\ sp_ret' = wait_timeout
    /\ sp_pc' = "returned"
    /\ UNCHANGED <<sp_clock, sp_child, thinkVars, swarmVars, apiVars, extractVars>>

NextSpawn ==
    \/ SpawnChild
    \/ \E e \in SpawnErrors : SpawnChildError(e)
    \/ \E output \in ChildOutputs : ChildFinish(output)
    \/ ChildWaitFails
    \/ Tick
    \/ ReturnOutput
    \/ \E e \in WaitErrors : ReturnWaitError(e)
    \/ ReturnTimeout

InitSpawn == Init /\ ~observer

\* one spawn call, from Command::spawn to its return
SpecSpawn == InitSpawn /\ [][NextSpawn]_vars

(***************************************************************************)
(* Completion client with retry: Brain::complete (substrate/brain/api.rs)  *)
(***************************************************************************)

\* let max_attempts = 3
max_attempts == 3

\* the upstream responses of the model: a status, whether the body is JSON,
\* and choices[0].message.content when it is a string
ApiResponses ==
    { [status |-> 200, json |-> TRUE, content |-> Some("All done.")],
      [status |-> 200, json |-> TRUE, content |-> Some("")],
      [status |-> 200, json |-> TRUE, content |-> None],
      [status |-> 200, json |-> FALSE, content |-> None] }
    \cup { [status |-> s, json |-> TRUE, content |-> None] : s \in {400, 404, 429, 499, 500, 503} }

\* StatusCode::is_success
is_success(status) == 200 <= status /\ status < 300

\* StatusCode::canonical_reason().unwrap_or("<unknown status code>")
canonical_reason(status) ==
    CASE status = 200 -> "OK"
      [] status = 400 -> "Bad Request"
      [] status = 404 -> "Not Found"
      [] status = 429 -> "Too Many Requests"
      [] status = 500 -> "Internal Server Error"
      [] status = 503 -> "Service Unavailable"
      [] OTHER -> "<unknown status code>"

\* Display of StatusCode: the code and its canonical reason
status_display(status) == ToString(status) \o " " \o canonical_reason(status)

\* a test that retries every failure status
is_retryable_AnyFailure(status) == status >= 400

\* status.as_u16() == 429 || status.as_u16() >= 500
is_retryable(status) == status = 429 \/ status >= 500

\* a retry test that allows one attempt more
may_retry_Inclusive(status, n) == is_retryable(status) /\ n <= max_attempts

\* the condition of the retry branch
may_retry(status, n) == is_retryable(status) /\ n < max_attempts

\* a delay that does not grow
backoff_ms_Constant(n) == 1000

\* let backoff_ms = 1000 * u64::pow(2, attempts - 1)
backoff_ms(n) == 1000 * 2 ^ (n - 1)

\* Ok(json["choices"][0]["message"]["content"].as_str().unwrap_or("").to_string())
content_text(resp) == Ok(IF resp.content.some THEN resp.content.val ELSE "")

\* anyhow!("API Error: {} (after {} attempts)", status, attempts)
api_error(status, n) ==
    "API Error: " \o status_display(status) \o " (after " \o ToString(n) \o " attempts)"

\* let res = ...send().await?: the response of the current attempt
res == responses[Len(responses)]

\* std::env::var("OPENROUTER_API_KEY")?, then the request body is built
CompleteStart(key_set) ==
    /\ api_pc = "start"
    /\ IF key_set
       THEN api_pc' = "attempt" /\ UNCHANGED api_ret
       ELSE api_pc' = "returned" /\ api_ret' = Err("environment variable not found")
    /\ UNCHANGED <<attempts, responses, sleeps, thinkVars, swarmVars, extractVars, spawnVars>>

\* attempts += 1; the request is sent and a response arrives
ReceiveResponse(resp) ==
    /\ api_pc = "attempt"
    /\ attempts' = attempts + 1
    /\ responses' = Append(responses, resp)
    /\ api_pc' = "status"
    /\ UNCHANGED <<sleeps, api_ret, thinkVars, swarmVars, extractVars, spawnVars>>

\* attempts += 1; send().await? fails: the error is returned at once
SendFails ==
    /\ api_pc = "attempt"
    /\ attempts' = attempts + 1
    /\ api_ret' = Err("error sending request")
    /\ api_pc' = "returned"
    /\ UNCHANGED <<responses, sleeps, thinkVars, swarmVars, extractVars, spawnVars>>

\* a success status: the body is decoded and the content returned
ReturnContent ==
    /\ api_pc = "status"
    /\ is_success(res.status)
    /\ api_ret' = IF res.json
                  THEN content_text(res)
                  ELSE Err("error decoding response body")
    /\ api_pc' = "returned"
    /\ UNCHANGED <<attempts, responses, sleeps, thinkVars, swarmVars, extractVars, spawnVars>>

\* a retryable status below the attempt ceiling: sleep the backoff
Backoff ==
    /\ api_pc = "status"
    /\ ~is_success(res.status)
    /\ may_retry(res.status, attempts)
    /\ sleeps' = Append(sleeps, backoff_ms(attempts))
    /\ api_pc' = "sleep"
    /\ UNCHANGED <<attempts, responses, api_ret, thinkVars, swarmVars, extractVars, spawnVars>>

\* the sleep is over: continue
WakeUp ==
    /\ api_pc = "sleep"
    /\ api_pc' = "attempt"
    /\ UNCHANGED <<attempts, responses, sleeps, api_ret, thinkVars, swarmVars, extractVars, spawnVars>>

\* a non-retryable status or the last attempt: the error is returned
ReturnApiError ==
    /\ api_pc = "status"
    /\ ~is_success(res.status)
    /\ ~may_retry(res.status, attempts)
    /\ api_ret' = Err(api_error(res.status, attempts))
    /\ api_pc' = "returned"
    /\ UNCHANGED <<attempts, responses, sleeps, thinkVars, swarmVars, extractVars, spawnVars>>

NextApi ==
    \/ \E key_set \in BOOLEAN : CompleteStart(key_set)
    \/ \E resp \in ApiResponses : ReceiveResponse(resp)
    \/ SendFails
    \/ ReturnContent
    \/ Backoff
    \/ WakeUp
    \/ ReturnApiError

\* the client alone: no thinking loop and no spawn call run in its model
InitApi == Init /\ ~observer

\* one complete() call
SpecApi == InitApi /\ [][NextApi]_vars

(***************************************************************************)
(* extract_tools applied to texts drawn from a bounded set                 *)
(***************************************************************************)

\* the longest argument the texts are built with, in pieces
MaxArgPieces == 3

\* the pieces an argument is made of
ArgPieces == {"[", "]", "\"", "'", "\\", "x", " "}

\* the texts an argument is placed in
WrapKinds ==
    {"call", "prose", "unknown", "open", "in_unknown", "in_open",
     "tool_code", "tool_code_tail", "json", "fence", "bare"}

Wrap(kind, arg) ==
    CASE kind = "call" -> "[READ_FILE: " \o arg \o "]"
      [] kind = "prose" -> "Let me check. [READ_FILE:" \o arg \o "] done."
      [] kind = "unknown" -> "[FOOBAR: " \o arg \o "]"
      [] kind = "open" -> "[READ_FILE: " \o arg
      [] kind = "in_unknown" -> "[FOOBAR: [READ_FILE: " \o arg \o "]]"
      [] kind = "in_open" -> "[EDIT_FILE: [READ_FILE: " \o arg \o "]"
      [] kind = "tool_code" -> Fence \o "tool_code\nREAD_FILE: " \o arg \o "\n" \o Fence
      [] kind = "tool_code_tail" -> Fence \o "tool_code\nREAD_FILE: " \o arg \o Fence \o "y" \o Fence
      [] kind = "json" -> Fence \o "json\nREAD_FILE: " \o arg \o "\n" \o Fence
      [] kind = "fence" -> Fence \o "\nREAD_FILE: " \o arg \o "\n" \o Fence
      [] kind = "bare" -> "READ_FILE: " \o arg \o "]"

\* texts taken as they are
Scenarios ==
    { "Let me check. [READ_FILE: \"/tmp/x.txt\"] done.",
      "[FOOBAR: 1]",
      "[FOOBAR: [READ_FILE: x]]",
      "[READ_FILE: 1]",
      "[read_file: 1]",
      "[R: 1]",
      "[ DELEGATE:a[b[c]]d ]",
      "[READ_FILE: \"a\\\"]b\"]",
      "[READ_FILE: " \o Backtick \o "a]b" \o Backtick \o "]",
      Fence \o "json\n{\"path\": \"a\"}\n" \o Fence,
      Fence \o "json\nR: [READ_FILE: x]\n" \o Fence,
      Fence \o "json\nread_file: [READ_FILE: x]\n" \o Fence,
      Fence \o "json\nEDIT_FILE : [READ_FILE: x]\n" \o Fence,
      Fence \o "jsonREAD_FILE: x" \o Fence,
      Fence \o "json \n\tREAD_FILE: [x\n" \o Fence }

\* one more piece is added to the argument
AppendPiece(piece) ==
    /\ ex_pc = "build"
    /\ ex_n < MaxArgPieces
    /\ ex_arg' = ex_arg \o piece
    /\ ex_n' = ex_n + 1
    /\ UNCHANGED <<ex_pc, ex_content, extracted, thinkVars, swarmVars, apiVars, spawnVars>>

\* extract_tools is called on the argument placed in a text
ExtractWrapped(kind) ==
    /\ ex_pc = "build"
    /\ ex_content' = Wrap(kind, ex_arg)
    /\ extracted' = extract_tools(ex_content')
    /\ ex_pc' = "done"
    /\ UNCHANGED <<ex_arg, ex_n, thinkVars, swarmVars, apiVars, spawnVars>>

\* extract_tools is called on a text taken as it is
ExtractScenario(text) ==
    /\ ex_pc = "build"
    /\ ex_n = 0
    /\ ex_content' = text
    /\ extracted' = extract_tools(text)
    /\ ex_pc' = "done"
    /\ UNCHANGED <<ex_arg, ex_n, thinkVars, swarmVars, apiVars, spawnVars>>

NextExtract ==
    \/ \E piece \in ArgPieces : AppendPiece(piece)
    \/ \E kind \in WrapKinds : ExtractWrapped(kind)
    \/ \E text \in Scenarios : ExtractScenario(text)

InitExtract == Init /\ ~observer

\* extract_tools on every text of the bounded set
SpecExtract == InitExtract /\ [][NextExtract]_vars

(***************************************************************************)
(* Properties                                                              *)
(***************************************************************************)

Last(seq) == seq[Len(seq)]

IsPrefix(a, b) == Len(a) <= Len(b) /\ SubSeq(b, 1, Len(a)) = a

\* number of positions of s at which pat occurs
CountOcc(s, pat) == Cardinality({i \in 0..(Len(s) - Len(pat)) : Slice(s, i, i + Len(pat)) = pat})

\* every completion so far succeeded with a text that holds an invocation
AllRepliesHaveTools ==
    \A i \in 1..Len(completions) :
        completions[i].ok /\ completions[i].tools > 0

\* some completion call failed
SomeCompletionFailed == \E i \in 1..Len(completions) : ~completions[i].ok

\* C1: with a provider whose every reply holds a valid registered
\* invocation, the loop never starts more than max_depth tool rounds, and
\* when it has stopped it has run exactly max_depth rounds and the text it
\* returns ends with the truncation notice.
C1_DepthBound ==
    AllRepliesHaveTools =>
        /\ rounds <= max_depth
        /\ pc \in {"final", "returned"} =>
              /\ rounds = max_depth
              /\ EndsWith(content, Notice)
        /\ pc = "returned" => ret = Some(content)

C1_Witness ==
    /\ pc = "returned"
    /\ AllRepliesHaveTools
    /\ Len(completions) = max_depth + 1
    /\ rounds = max_depth
    /\ EndsWith(ret.val, Notice)

\* invocation i of the round is subject to the write-safety gate: a file
\* tool with an extracted target path that is not an internal file
GateSubject(i) ==
    /\ to_lowercase(tasks[i].name) \in {"edit_file", "write_file", "diff_patch"}
    /\ path_to_verify(tasks[i].name, tasks[i].arg).some
    /\ ~is_internal(ensure_absolute(path_to_verify(tasks[i].name, tasks[i].arg).val))

\* the path extracted from the argument of invocation i
TargetPath(i) == path_to_verify(tasks[i].name, tasks[i].arg).val

\* text occurs in the history of the earlier rounds or in the system prompt
\* (the history is not extended while the tools of a round run)
Mentioned(text) ==
    Contains(JoinContents(messages), text) \/ Contains(system_prompt, text)

\* the skill of invocation i was run
Executed(i) ==
    \/ tasks[i].st \in {"exec", "result"}
    \/ tasks[i].st = "done" /\ ~tasks[i].refused

\* the refusal of invocation i has been put in the feedback block
RefusalReported(i) ==
    Contains(tool_outputs,
             ErrorEntry(tasks[i].name, RefusalText(ensure_absolute(TargetPath(i)))))

\* C2 as stated: a gated invocation is executed only if its extracted path
\* P occurs verbatim in the earlier history or the system prompt, and is
\* refused when P has no prior mention.
C2_Original ==
    pc = "tools" =>
        \A i \in 1..Len(tasks) :
            GateSubject(i) /\ ~Mentioned(TargetPath(i)) =>
                ~Executed(i) /\ tasks[i].refused

\* C2 amended: a gated invocation is executed only if the absolute form of
\* its path (ensure_absolute) occurs verbatim in the earlier history or the
\* system prompt; otherwise it is refused and its result tells the agent
\* to read that absolute path first.
C2_GateAbsolute ==
    pc = "tools" =>
        \A i \in 1..Len(tasks) :
            GateSubject(i) /\ ~Mentioned(ensure_absolute(TargetPath(i))) =>
                /\ ~Executed(i)
                /\ tasks[i].refused
                /\ tasks[i].st = "done" => RefusalReported(i)

C2_Witness ==
    /\ pc = "tools"
    /\ \E i, j \in 1..Len(tasks) :
          /\ GateSubject(i) /\ Mentioned(ensure_absolute(TargetPath(i)))
          /\ tasks[i].st = "exec"
          /\ GateSubject(j) /\ ~Mentioned(ensure_absolute(TargetPath(j)))
          /\ tasks[j].st = "done" /\ RefusalReported(j)

\* sub-agent subprocesses that are running
RunningChildren == {c \in Callers : child[c] = "running"}

\* spawn calls that have been entered and have not returned
CallsInProgress == {c \in Callers : call[c] \in {"queued", "waiting"}}

\* C3: at every instant at most 6 spawned subprocesses are running.
C3_AtMostSixRunning == Cardinality(RunningChildren) <= SwarmPermits

\* C4: the permits held never exceed the spawn calls in progress, a
\* subprocess exists only for a call that got a permit, and when no spawn
\* call is in progress all permits are available, whichever way the calls
\* ended.
C4_PermitsBalanced ==
    /\ permits \in 0..SwarmPermits
    /\ SwarmPermits - permits <= Cardinality(CallsInProgress)
    /\ SwarmPermits - permits = Cardinality({c \in Callers : call[c] = "waiting"})
    /\ \A c \in Callers : call[c] \in {"idle", "queued"} => child[c] = "none"
    /\ CallsInProgress = {} => permits = SwarmPermits

C4_Witness ==
    /\ \A c \in Callers : call[c] = "returned"
    /\ permits = SwarmPermits
    /\ \E c \in Callers : child[c] = "none"
    /\ \E c \in Callers : child[c] = "running"
    /\ \E c \in Callers : child[c] = "exited"

\* think_internal is at a point where its next step is to send an event
PendingEmit ==
    \/ pc \in {"report_init_error", "report_loop_error", "final"}
    \/ pc = "top" /\ ~DepthLimitHit(depth)
    \/ /\ pc = "tools"
       /\ \E i \in 1..Len(tasks) :
             \/ tasks[i].st = "new" /\ ~tasks[i].refused
             \/ tasks[i].st = "result"

\* C5: emitting never blocks: whenever the loop is about to send an event
\* the send completes at once, the event being queued or dropped.
C5_EmitNeverBlocks == PendingEmit => CanSend

\* C6: when a completion call has failed, the returned text is an explicit
\* error string that describes the failure.
C6_FailureReturnsError ==
    pc = "returned" /\ SomeCompletionFailed =>
        /\ StartsWith(ret.val, "Error")
        /\ Contains(ret.val, Last(completions).text)

\* C7: a failed completion is the last completion call of the invocation
\* and, with an observer, the Error event is the last event sent.
C7_ErrorEventIsLast ==
    SomeCompletionFailed =>
        /\ \A i \in 1..(Len(completions) - 1) : completions[i].ok
        /\ observer /\ pc = "returned" =>
              emitted # <<>> /\ Last(emitted).type = "Error"

\* the events sent since the last ThoughtLayer: the events of the round
RoundEvents ==
    LET layers == {i \in 1..Len(emitted) : emitted[i].type = "ThoughtLayer"}
        from == IF layers = {} THEN 0 ELSE CHOOSE i \in layers : \A j \in layers : j <= i
    IN  SubSeq(emitted, from + 1, Len(emitted))

\* number of events of a type and tool name in a sequence of events
CountEvents(evs, type, name) ==
    Cardinality({i \in 1..Len(evs) : evs[i].type = type /\ evs[i].name = name})

\* number of admitted (non-refused) invocations of the round with a name
AdmittedNamed(name) ==
    Cardinality({i \in 1..Len(tasks) : tasks[i].name = name /\ ~tasks[i].refused})

\* the names of the invocations of the round
RoundNames == {tasks[i].name : i \in 1..Len(tasks)}

\* C8: with an observer, in every round each admitted invocation sends one
\* ToolExecution and later one ToolResult, a refused one sends neither, no
\* ToolResult precedes its ToolExecution, and when the feedback message has
\* been appended every admitted invocation has sent both.
C8_StartThenResult ==
    observer /\ pc \in {"tools", "recomplete"} =>
        \A name \in RoundNames :
            /\ \A n \in 0..Len(RoundEvents) :
                  CountEvents(SubSeq(RoundEvents, 1, n), "ToolResult", name)
                      <= CountEvents(SubSeq(RoundEvents, 1, n), "ToolExecution", name)
            /\ CountEvents(RoundEvents, "ToolExecution", name) <= AdmittedNamed(name)
            /\ pc = "recomplete" =>
                  /\ CountEvents(RoundEvents, "ToolExecution", name) = AdmittedNamed(name)
                  /\ CountEvents(RoundEvents, "ToolResult", name) = AdmittedNamed(name)

C8_Witness ==
    /\ observer
    /\ pc = "recomplete"
    /\ Len(tasks) = 2
    /\ \E i, j \in 1..Len(tasks) : tasks[i].refused /\ ~tasks[j].refused /\ ~tasks[j].result.ok
    /\ Len(RoundEvents) = 2
    /\ RoundEvents[1].type = "ToolExecution"
    /\ RoundEvents[2].type = "ToolResult" /\ ~RoundEvents[2].success

\* C9: the message sequence only grows at its end: every step leaves the
\* earlier messages as they were.
C9_AppendOnly == [][IsPrefix(messages, messages')]_vars

C9_Witness ==
    /\ Len(messages) = 2 + 2 * max_depth
    /\ messages[1] = Message("system", system_prompt)
    /\ messages[2] = Message("user", user_prompt)
    /\ \E i \in 3..Len(messages) : messages[i].content = CorrectiveText

\* number of labelled entries for a tool name in a feedback text
EntriesNamed(text, name) ==
    CountOcc(text, "\n--- Output from " \o name \o " ---\n")
    + CountOcc(text, "\n--- Error from " \o name \o " ---\n")

\* the invocations of the text of the round
RoundTools == tools_to_run(content)

\* C10: the step that ends a round of k invocations appends exactly two
\* turns, the assistant text and then one feedback message, and the feedback
\* holds exactly k labelled entries, as many for each tool name as the round
\* has invocations of that name (refusals included).
C10_OneFeedbackAllResults ==
    [][pc = "tools" /\ pc' = "recomplete" =>
          /\ Len(messages') = Len(messages) + 2
          /\ SubSeq(messages', 1, Len(messages)) = messages
          /\ messages'[Len(messages) + 1] = Message("assistant", content)
          /\ messages'[Len(messages) + 2].role = "user"
          /\ LET feedback == messages'[Len(messages) + 2].content
             IN  /\ StartsWith(feedback, "\n<TOOL_OUTPUTS>\n")
                 /\ EndsWith(feedback, "\n</TOOL_OUTPUTS>\n" \o FeedbackSuffix)
                 /\ CountOcc(feedback, "\n--- ") = Len(RoundTools)
                 /\ \A i \in 1..Len(RoundTools) :
                       EntriesNamed(feedback, RoundTools[i].name)
                         = Cardinality({j \in 1..Len(RoundTools) :
                                           RoundTools[j].name = RoundTools[i].name})]_vars

C10_Witness ==
    /\ pc = "recomplete"
    /\ Len(RoundTools) = 2
    /\ \E i, j \in 1..Len(tasks) : tasks[i].refused /\ ~tasks[j].refused /\ tasks[j].result.ok
    /\ Last(messages).role = "user"
    /\ CountOcc(Last(messages).content, "\n--- Error from ") = 1
    /\ CountOcc(Last(messages).content, "\n--- Output from ") = 1

\* the feedback messages of a history: user turns that open a tool-output block
FeedbackTurns(msgs) ==
    {i \in 1..Len(msgs) : msgs[i].role = "user" /\ StartsWith(msgs[i].content, "\n<TOOL_OUTPUTS>\n")}

\* C11: a completion call is issued only from the initial call, the
\* self-correction path or the feedback step; when it is issued the history
\* holds one feedback message for each round whose tools were run, and the
\* call after a round is issued only when every invocation of the round has
\* returned and the round's feedback, with one entry per invocation, is the
\* last message of the history passed to it.
C11_FeedbackBeforeCompletion ==
    [][completions' # completions =>
          /\ pc \in {"complete", "correcting", "recomplete"}
          /\ Cardinality(FeedbackTurns(messages)) = rounds
          /\ pc = "recomplete" =>
                /\ tasks # <<>>
                /\ \A i \in 1..Len(tasks) : tasks[i].st = "done"
                /\ Last(messages).content = tool_outputs \o FeedbackSuffix
                /\ Len(messages) \in FeedbackTurns(messages)
                /\ CountOcc(Last(messages).content, "\n--- ") = Len(tasks)]_vars

C11_Witness ==
    /\ pc = "top"
    /\ rounds = 2
    /\ Len(completions) = 3
    /\ Cardinality(FeedbackTurns(messages)) = 2
    /\ Len(tasks) = 2

\* the fences tagged with an executable language
ExecutableFences ==
    {Fence \o "tool_code", Fence \o "python", Fence \o "javascript", Fence \o "bash"}

\* text carries the self-correction marker
HasExecutableFence(text) == \E f \in ExecutableFences : Contains(text, f)

\* the corrective turns of a history
CorrectiveTurns(msgs) == {i \in 1..Len(msgs) : msgs[i] = Message("user", CorrectiveText)}

\* C12: when extraction finds no invocation and the text holds an
\* executable-language fence, the loop pushes the assistant text and the
\* fixed corrective turn and runs no tool; it then issues exactly one
\* completion call and, when that call succeeds, takes its text, adds
\* exactly one to depth and restarts at the top of the loop.  Each
\* correction uses up one round: at the start of a round the corrective
\* turns and the feedback turns of the history together number depth.
C12_SelfCorrectionOnce ==
    [][/\ (/\ pc = "extract" /\ pc' # "extract"
           /\ tools_to_run(content) = <<>> /\ HasExecutableFence(content)) =>
              /\ pc' = "correcting"
              /\ messages' = messages \o <<Message("assistant", content),
                                           Message("user", CorrectiveText)>>
              /\ UNCHANGED <<content, depth, tasks, rounds, completions>>
       /\ (pc = "correcting" /\ pc' # "correcting") =>
              /\ Len(completions') = Len(completions) + 1
              /\ UNCHANGED <<messages, tasks, rounds>>
              /\ Last(completions').ok =>
                    /\ content' = Last(completions').text
                    /\ depth' = depth + 1
                    /\ pc' = "top"
       /\ pc' \in {"top", "extract"} =>
              Cardinality(CorrectiveTurns(messages')) + Cardinality(FeedbackTurns(messages'))
                  = depth']_vars

C12_Witness ==
    /\ pc = "top"
    /\ depth = 2
    /\ rounds = 0
    /\ Len(completions) = 3
    /\ CorrectiveTurns(messages) = {4, 6}
    /\ messages[3] = Message("assistant", Fence \o "bash\nls\n" \o Fence)

\* C13: when the extractor finds no invocation in the text of the round and
\* the text holds no executable-language fence, the loop leaves the round
\* for its exit without a completion call, a tool task or a change of the
\* text or the history; the exit then returns the text unchanged and, with
\* an observer, sends it as the FinalAnswer event, the last event sent.
C13_PlainTextIsFinalAnswer ==
    [][/\ (/\ pc = "extract" /\ pc' # "extract"
           /\ tools_to_run(content) = <<>> /\ ~HasExecutableFence(content)) =>
              /\ pc' = "final"
              /\ UNCHANGED <<content, messages, completions, tasks, rounds, depth>>
       /\ (pc = "final" /\ pc' # "final") =>
              /\ pc' = "returned"
              /\ ret' = Some(content)
              /\ UNCHANGED <<content, messages, completions, tasks, rounds, depth>>
              /\ observer =>
                    /\ SubSeq(emitted', 1, Len(emitted)) = emitted
                    /\ Len(emitted') = Len(emitted) + 1
                    /\ Last(emitted').type = "FinalAnswer"
                    /\ Last(emitted').text = content
       /\ pc = "returned" =>
              UNCHANGED <<ret, content, messages, completions, tasks, rounds, depth, emitted>>]_vars

C13_Witness ==
    /\ pc = "returned"
    /\ observer
    /\ rounds = 1
    /\ Len(completions) = 2
    /\ Last(completions).ok /\ Last(completions).tools = 0
    /\ ~HasExecutableFence(Last(completions).text)
    /\ ret = Some(Last(completions).text)
    /\ Last(emitted).type = "FinalAnswer"
    /\ Last(emitted).text = Last(completions).text

\* the invocations of the round that were refused or whose skill failed
FailedTasks ==
    {i \in 1..Len(tasks) :
        \/ tasks[i].refused
        \/ tasks[i].st \in {"result", "done"} /\ ~tasks[i].result.ok}

\* C14: a round in which an invocation was refused or its skill returned an
\* error does not end the loop: the round is left only by the feedback
\* step, the feedback message pushed holds one error entry for each failed
\* invocation, and after the feedback the next completion call can be
\* issued and is the only step the loop takes (whatever the depth).
C14_FailureIsFedBack ==
    [][/\ (pc = "tools" /\ FailedTasks # {}) => pc' \in {"tools", "recomplete"}
       /\ (pc = "tools" /\ pc' = "recomplete" /\ FailedTasks # {}) =>
              /\ Len(messages') = Len(messages) + 2
              /\ Last(messages').role = "user"
              /\ CountOcc(Last(messages').content, "\n--- Error from ")
                    = Cardinality(FailedTasks)
       /\ pc = "recomplete" => ENABLED (\E reply \in Replies : RecompleteOk(reply))
       /\ (pc = "recomplete" /\ pc' # "recomplete") =>
              /\ Len(completions') = Len(completions) + 1
              /\ messages' = messages]_vars

C14_Witness ==
    /\ pc = "top"
    /\ rounds = 1
    /\ depth = 1
    /\ Len(completions) = 2
    /\ Last(completions).ok
    /\ Cardinality(FailedTasks) = 2
    /\ Contains(Last(messages).content, "\n--- Error from EDIT_FILE ---\nfailed\n")
    /\ Contains(Last(messages).content, "State Verification Refused")

\* the failure entry the feedback must hold for a refused invocation i: its
\* label, the refusal and the instruction to read the absolute path first
RefusalEntryOf(i) ==
    "\n--- Error from " \o tasks[i].name \o " ---\nERROR: State Verification Refused. You must use "
    \o Backtick \o "READ_FILE" \o Backtick \o " or " \o Backtick \o "LIST_DIR" \o Backtick
    \o " on '" \o ensure_absolute(TargetPath(i)) \o "' to verify its current state before attempting to modify it."

\* a ToolExecution event was sent in the round for the invocation i
ExecutionSent(i) ==
    \E k \in 1..Len(RoundEvents) :
        /\ RoundEvents[k].type = "ToolExecution"
        /\ RoundEvents[k].name = tasks[i].name
        /\ RoundEvents[k].arg = tasks[i].arg

\* C15: an invocation the gate refused never reaches its skill: its task
\* goes from pushed to finished with no execution and no ToolExecution
\* event, its labelled failure entry, which tells the agent to read the
\* path first, is in the feedback block once the task has finished, and
\* the entry is in the feedback message of the round.
C15_RefusedNeverExecuted ==
    pc \in {"tools", "recomplete"} =>
        \A i \in 1..Len(tasks) :
            tasks[i].refused =>
                /\ tasks[i].st \in {"new", "done"}
                /\ ~Executed(i)
                /\ observer => ~ExecutionSent(i)
                /\ tasks[i].st = "done" => Contains(tool_outputs, RefusalEntryOf(i))
                /\ pc = "recomplete" => Contains(Last(messages).content, RefusalEntryOf(i))

C15_Witness ==
    /\ pc = "recomplete"
    /\ observer
    /\ \E i, j \in 1..Len(tasks) :
          /\ tasks[i].refused /\ tasks[i].name = "WRITE_FILE"
          /\ ~ExecutionSent(i)
          /\ Contains(Last(messages).content,
                      "on '/home/u/.openspore/notes/b.txt' to verify its current state")
          /\ ~tasks[j].refused /\ ExecutionSent(j) /\ tasks[j].result.ok

\* the state of the loop itself: everything think_internal holds except the
\* observer channel and what was sent on it
LoopState ==
    [pc |-> pc, messages |-> messages, content |-> content, depth |-> depth,
     tasks |-> tasks, tool_outputs |-> tool_outputs, err |-> err, ret |-> ret,
     completions |-> completions, rounds |-> rounds]

\* what the environment supplied in a step: the outcome of a completion
\* call, the invocation whose future made progress and its skill result, or
\* nothing
StepInput ==
    IF completions' # completions
    THEN [kind |-> "completion", ok |-> Last(completions').ok, text |-> Last(completions').text,
          i |-> 0, result |-> [ok |-> FALSE, text |-> ""]]
    ELSE IF pc = "tools" /\ tasks' # tasks
    THEN LET i == CHOOSE k \in 1..Len(tasks) : tasks'[k] # tasks[k]
         IN  [kind |-> "task", ok |-> FALSE, text |-> "", i |-> i, result |-> tasks'[i].result]
    ELSE [kind |-> "step", ok |-> FALSE, text |-> "", i |-> 0,
          result |-> [ok |-> FALSE, text |-> ""]]

\* one step of an invocation task of the loop run without an observer
TaskAfter(s, i, result) ==
    LET t == s.tasks[i]
        label(kind, text) == "\n--- " \o kind \o " from " \o t.name \o " ---\n" \o text \o "\n"
        finish(entry) == [s EXCEPT !.tasks[i].st = "done", !.tool_outputs = @ \o entry]
    IN  IF t.st = "new"
        THEN IF t.refused
             THEN finish(label("Error",
                      RefusalText(ensure_absolute(path_to_verify(t.name, t.arg).val))))
             ELSE IF skill_get(t.name)
                  THEN [s EXCEPT !.tasks[i].st = "exec"]
                  ELSE finish(label("Error", "Unknown tool '" \o t.name \o "'"))
        ELSE IF t.st = "exec"
             THEN [s EXCEPT !.tasks[i].st = "result", !.tasks[i].result = result]
        ELSE IF t.st = "result"
             THEN finish(label(IF t.result.ok THEN "Output" ELSE "Error", t.result.text))
        ELSE s

\* the loop run without an observer, as a function: the state that follows
\* the state s on the input in
LoopAfter(s, in) ==
    LET logged == [s EXCEPT !.completions = Append(@, Completion(in.ok, in.text))]
        tools == tools_to_run(s.content)
        pushed(text) ==
            s.messages \o <<Message("assistant", s.content), Message("user", text)>>
    IN  CASE s.pc = "complete" ->
                 IF in.ok THEN [logged EXCEPT !.content = in.text, !.pc = "top"]
                 ELSE [logged EXCEPT !.err = in.text, !.pc = "report_init_error"]
          [] s.pc = "report_init_error" ->
                 [s EXCEPT !.ret = Some("Errors: " \o s.err), !.pc = "returned"]
          [] s.pc = "top" ->
                 IF s.depth >= max_depth
                 THEN [s EXCEPT !.content = @ \o Notice, !.pc = "final"]
                 ELSE [s EXCEPT !.pc = "extract"]
          [] s.pc = "extract" ->
                 IF tools = <<>>
                 THEN IF HasExecutableFence(s.content)
                      THEN [s EXCEPT !.messages = pushed(CorrectiveText), !.pc = "correcting"]
                      ELSE [s EXCEPT !.pc = "final"]
                 ELSE [s EXCEPT !.tasks = [i \in 1..Len(tools) |->
                                              NewTask(tools[i], JoinContents(s.messages))],
                                !.tool_outputs = "\n<TOOL_OUTPUTS>\n",
                                !.rounds = @ + 1,
                                !.pc = "tools"]
          [] s.pc = "correcting" ->
                 IF in.ok THEN [logged EXCEPT !.content = in.text, !.depth = @ + 1, !.pc = "top"]
                 ELSE [logged EXCEPT !.pc = "final"]
          [] s.pc = "tools" ->
                 IF in.kind = "task" THEN TaskAfter(s, in.i, in.result)
                 ELSE [s EXCEPT !.messages =
                                   pushed(s.tool_outputs \o "\n</TOOL_OUTPUTS>\n" \o FeedbackSuffix),
                                !.tool_outputs = @ \o "\n</TOOL_OUTPUTS>\n",
                                !.pc = "recomplete"]
          [] s.pc = "recomplete" ->
                 IF in.ok THEN [logged EXCEPT !.content = in.text, !.depth = @ + 1, !.pc = "top"]
                 ELSE [logged EXCEPT !.err = in.text, !.pc = "report_loop_error"]
          [] s.pc = "report_loop_error" -> [s EXCEPT !.pc = "final"]
          [] s.pc = "final" -> [s EXCEPT !.ret = Some(s.content), !.pc = "returned"]
          [] OTHER -> s

\* C16: with an observer attached (receiving, slow or gone) or without one,
\* every step of the loop takes the loop's state to the state the loop run
\* without an observer reaches on the same completion outcome or tool
\* result; the returned text and the message history are therefore the
\* same function of the sequence of replies and tool results in both cases.
C16_ObserverIndependent ==
    [][LoopState' = LoopAfter(LoopState, StepInput)]_LoopState

C16_Witness ==
    /\ pc = "returned"
    /\ observer /\ rx_open /\ chan = <<>>
    /\ rounds = 2
    /\ Len(messages) = 6
    /\ Len(emitted) >= 8
    /\ ret = Some(Last(completions).text \o Notice)

\* a status the claims call retryable: 429 or a server error
Transient(status) == status = 429 \/ status >= 500

\* a success status
Success(status) == status >= 200 /\ status <= 299

RECURSIVE Sum(_)
\* the sum of a sequence of numbers
Sum(seq) == IF seq = <<>> THEN 0 ELSE Head(seq) + Sum(Tail(seq))

\* C17: one complete() call makes at most 3 upstream attempts, every
\* attempt but the last was answered with 429 or a status of 500 or more,
\* and when all 3 attempts got such a status the call returns an error that
\* carries the last status and the attempt count 3.
C17_AtMostThreeAttempts ==
    /\ attempts <= 3
    /\ Len(responses) <= attempts
    /\ \A i \in 1..(Len(responses) - 1) : Transient(responses[i].status)
    /\ (/\ api_pc = "returned"
        /\ Len(responses) = 3
        /\ \A i \in 1..3 : Transient(responses[i].status)) =>
           /\ ~api_ret.ok
           /\ StartsWith(api_ret.text, "API Error: " \o ToString(responses[3].status) \o " ")
           /\ EndsWith(api_ret.text, " (after 3 attempts)")

C17_Witness ==
    /\ api_pc = "returned"
    /\ attempts = 3
    /\ Len(responses) = 3
    /\ responses[1].status = 429 /\ responses[2].status = 500 /\ responses[3].status = 503
    /\ api_ret = [ok |-> FALSE, text |-> "API Error: 503 Service Unavailable (after 3 attempts)"]

\* C18: the first backoff is 1000 ms and the second 2000 ms; when the first
\* two attempts got a retryable status and the third a success with a
\* text, complete() returns that text after both delays, 3000 ms of backoff
\* at least.
C18_BackoffThenSuccess ==
    /\ Len(sleeps) >= 1 => sleeps[1] = 1000
    /\ Len(sleeps) >= 2 => sleeps[2] = 2000
    /\ (/\ api_pc = "returned"
        /\ Len(responses) = 3
        /\ Transient(responses[1].status) /\ Transient(responses[2].status)
        /\ Success(responses[3].status) /\ responses[3].json /\ responses[3].content.some) =>
           /\ api_ret = [ok |-> TRUE, text |-> responses[3].content.val]
           /\ Len(sleeps) = 2
           /\ Sum(sleeps) >= 1000 + 2 * 1000

C18_Witness ==
    /\ api_pc = "returned"
    /\ Len(responses) = 3
    /\ responses[1].status = 503 /\ responses[2].status = 429 /\ responses[3].status = 200
    /\ api_ret = [ok |-> TRUE, text |-> "All done."]
    /\ sleeps = <<1000, 2000>>

\* C19: a response whose status is neither a success nor retryable is the
\* last response of the call: no sleep follows it (one sleep per earlier
\* response), no further attempt is made, the call is deciding or has
\* returned, and what it returns is an error carrying that status and the
\* number of attempts made.
C19_NonRetryableReturnsAtOnce ==
    \A i \in 1..Len(responses) :
        ~Success(responses[i].status) /\ ~Transient(responses[i].status) =>
            /\ i = Len(responses)
            /\ attempts = i
            /\ Len(sleeps) = i - 1
            /\ api_pc \in {"status", "returned"}
            /\ api_pc = "returned" =>
                  /\ ~api_ret.ok
                  /\ StartsWith(api_ret.text, "API Error: " \o ToString(responses[i].status) \o " ")
                  /\ EndsWith(api_ret.text, " (after " \o ToString(i) \o " attempts)")

C19_Witness ==
    /\ api_pc = "returned"
    /\ attempts = 1
    /\ Len(responses) = 1 /\ responses[1].status = 404
    /\ sleeps = <<>>
    /\ api_ret = [ok |-> FALSE, text |-> "API Error: 404 Not Found (after 1 attempts)"]

\* C20: when the last response has a success status and no text field,
\* complete() returns an error.
C20_MissingContentIsError ==
    (/\ api_pc = "returned"
     /\ responses # <<>>
     /\ Success(Last(responses).status)
     /\ ~Last(responses).content.some) => ~api_ret.ok

\* the invocations of the round that name the delegate skill
DelegateTasks == {i \in 1..Len(tasks) : to_lowercase(tasks[i].name) = "delegate"}

\* C21: a process started as a sub-agent (IS_SPORE set) never runs a
\* DELEGATE invocation found in its model output, so it spawns no further
\* sub-agent and the delegation depth is at most one.
C21_SubAgentNeverDelegates == is_spore => \A i \in DelegateTasks : ~Executed(i)

\* in the round under way, the delegate skill of invocation i has returned
\* and its sub-agent job had failed (timeout, unsuccessful exit, wait error
\* or spawn error)
JobFailed(i) ==
    /\ pc \in {"tools", "recomplete"}
    /\ tasks[i].st \in {"result", "done"}
    /\ ~tasks[i].job.ok

\* a ToolResult event of the round for a tool name, with a success flag
ResultSent(name, success) ==
    \E k \in 1..Len(RoundEvents) :
        /\ RoundEvents[k].type = "ToolResult"
        /\ RoundEvents[k].name = name
        /\ RoundEvents[k].success = success

\* C22 as stated: when the sub-agent job of a delegate invocation fails, the
\* result of the invocation in the loop is a failure: once the invocation
\* is finished its ToolResult event has success = false and its entry in
\* the feedback block is labelled as an error.
C22_Original ==
    \A i \in DelegateTasks :
        JobFailed(i) =>
            /\ ~tasks[i].result.ok
            /\ (tasks[i].st = "done" =>
                    /\ Contains(tool_outputs, "\n--- Error from " \o tasks[i].name \o " ---\n")
                    /\ (observer => ResultSent(tasks[i].name, FALSE)))

\* some delegate invocation of the round has a failed job
SomeJobFailed == \E i \in DelegateTasks : JobFailed(i)

\* C22, amended: when the sub-agent job of a delegate invocation fails, the
\* skill still returns an output, a JSON object with "success": false and
\* an "error" text made of "Delegation Failed: " and the failure of the
\* job; once the invocation is finished its ToolResult event has
\* success = true and its entry in the feedback block is labelled as an
\* output; the round then ends with the feedback turn and the next
\* completion call.
C22_FailedJobIsReported ==
    /\ [](\A i \in DelegateTasks :
            JobFailed(i) =>
                /\ tasks[i].result.ok
                /\ Contains(tasks[i].result.text, "\"success\":false")
                /\ Contains(tasks[i].result.text,
                            "\"error\":" \o json_string("Delegation Failed: " \o tasks[i].job.text))
                /\ (tasks[i].st = "done" =>
                        /\ Contains(tool_outputs,
                                    "\n--- Output from " \o tasks[i].name \o " ---\n"
                                      \o tasks[i].result.text \o "\n")
                        /\ (observer => ResultSent(tasks[i].name, TRUE))))
    /\ [][(pc = "tools" /\ SomeJobFailed /\ pc' # "tools") =>
              /\ pc' = "recomplete"
              /\ Len(messages') = Len(messages) + 2
              /\ \A i \in DelegateTasks :
                     JobFailed(i) => Contains(Last(messages').content, tasks[i].result.text)]_vars

C22_Witness ==
    /\ pc = "recomplete"
    /\ observer
    /\ \E i \in DelegateTasks :
           /\ tasks[i].st = "done"
           /\ tasks[i].job = wait_timeout
           /\ ResultSent(tasks[i].name, TRUE)

Blank == {" ", "\n", "\t", "\r"}

\* t is the text a without its leading and trailing white space
IsTrimOf(t, a) ==
    \E i, j \in 0..Len(a) :
        /\ i <= j
        /\ Slice(a, i, j) = t
        /\ \A k \in 0..(i - 1) : CharAt(a, k) \in Blank
        /\ \A k \in j..(Len(a) - 1) : CharAt(a, k) \in Blank
        /\ t # "" => CharAt(t, 0) \notin Blank /\ CharAt(t, Len(t) - 1) \notin Blank

\* C23: spawn classifies every outcome of the subprocess it started: an
\* exit with status success returns the standard output, trimmed; any other
\* end returns a failure that carries the exit status and the captured
\* standard error; a subprocess still running when 180 seconds have passed
\* returns a timeout failure, and the wait never lasts longer than that.
C23_SpawnClassifiesOutcome ==
    /\ [](sp_clock <= 180)
    /\ [][(sp_pc = "waiting" /\ sp_pc' = "returned") =>
              CASE sp_child.state = "exited" /\ sp_child.output.exited /\ sp_child.output.code = 0 ->
                       /\ sp_ret'.ok
                       /\ IsTrimOf(sp_ret'.text, sp_child.output.stdout)
                [] sp_child.state = "exited" /\ ~(sp_child.output.exited /\ sp_child.output.code = 0) ->
                       /\ ~sp_ret'.ok
                       /\ Contains(sp_ret'.text, "Sub-spore failed")
                       /\ Contains(sp_ret'.text, ": " \o ToString(sp_child.output.code))
                       /\ Contains(sp_ret'.text, sp_child.output.stderr)
                [] sp_child.state = "running" ->
                       /\ sp_clock = 180
                       /\ ~sp_ret'.ok
                       /\ Contains(sp_ret'.text, "timeout")
                [] OTHER -> ~sp_ret'.ok]_vars

C23_Witness ==
    /\ sp_pc = "returned"
    /\ sp_child.state = "running"
    /\ sp_clock = 180
    /\ sp_ret = [ok |-> FALSE, text |-> "Sub-spore timeout (10m)"]

\* extract_tools has returned for the text ex_content
Extracted == ex_pc = "done"

\* the one invocation READ_FILE with the argument text a, trimmed
OneReadFile(a) ==
    /\ Len(extracted) = 1
    /\ extracted[1].name = "READ_FILE"
    /\ IsTrimOf(extracted[1].arg, a)

\* the characters that open and close a quote
QuoteMarks == {"\"", "'", Backtick}

RECURSIVE ArgScan(_, _, _, _, _)
\* the argument text a read from position k: a backslash escapes the next
\* character, a quote runs from a quote mark to the next same mark, and
\* outside quotes no bracket closes more than was opened; at the end no
\* quote or bracket is open and no backslash is pending
ArgScan(a, k, open, quote, escaped) ==
    IF k = Len(a) THEN open = 0 /\ quote = "" /\ ~escaped
    ELSE IF escaped THEN ArgScan(a, k + 1, open, quote, FALSE)
    ELSE IF CharAt(a, k) = "\\" THEN ArgScan(a, k + 1, open, quote, TRUE)
    ELSE IF quote # "" THEN ArgScan(a, k + 1, open, IF CharAt(a, k) = quote THEN "" ELSE quote, FALSE)
    ELSE IF CharAt(a, k) \in QuoteMarks THEN ArgScan(a, k + 1, open, CharAt(a, k), FALSE)
    ELSE IF CharAt(a, k) = "[" THEN ArgScan(a, k + 1, open + 1, quote, FALSE)
    ELSE IF CharAt(a, k) = "]" THEN open > 0 /\ ArgScan(a, k + 1, open - 1, quote, FALSE)
    ELSE ArgScan(a, k + 1, open, quote, FALSE)

\* every quote of a is closed, no backslash is pending at its end and its
\* brackets outside quotes are balanced
ArgClosed(a) == ArgScan(a, 0, 0, "", FALSE)

RECURSIVE BracketsFrom(_, _, _)
\* the brackets of a from position k are balanced, every character counted
BracketsFrom(a, k, open) ==
    IF k = Len(a) THEN open = 0
    ELSE IF CharAt(a, k) = "[" THEN BracketsFrom(a, k + 1, open + 1)
    ELSE IF CharAt(a, k) = "]" THEN open > 0 /\ BracketsFrom(a, k + 1, open - 1)
    ELSE BracketsFrom(a, k + 1, open)

BracketsBalanced(a) == BracketsFrom(a, 0, 0)

\* a has no bracket, quote mark or backslash
PlainArg(a) == \A k \in 0..(Len(a) - 1) : CharAt(a, k) \notin (QuoteMarks \cup {"[", "]", "\\"})

\* C25: when an envelope is discarded because its well-formed name is not
\* registered, the scan resumes right after the opening delimiter: the
\* registered invocation nested in [FOOBAR: [READ_FILE: arg]] is emitted.
C25_ResumeAfterOpening ==
    (Extracted /\ ex_content = "[FOOBAR: [READ_FILE: " \o ex_arg \o "]]" /\ PlainArg(ex_arg))
        => OneReadFile(ex_arg)

\* C26 as stated: for every text [READ_FILE: arg] whose argument has
\* balanced brackets, extract_tools returns exactly the pair of READ_FILE
\* and the argument, trimmed and otherwise unchanged.
C26_Original ==
    (Extracted /\ ex_content = "[READ_FILE: " \o ex_arg \o "]" /\ BracketsBalanced(ex_arg))
        => OneReadFile(ex_arg)

\* C26, amended: for every text [READ_FILE: arg], alone or within prose,
\* whose argument, read with a backslash escaping the next character,
\* closes every quote it opens, leaves no backslash pending and has its
\* brackets outside quotes balanced, extract_tools returns exactly the pair
\* of READ_FILE and the argument, trimmed and otherwise unchanged.
C26_ClosedArgRecovered ==
    (/\ Extracted
     /\ \/ ex_content = "[READ_FILE: " \o ex_arg \o "]"
        \/ ex_content = "Let me check. [READ_FILE:" \o ex_arg \o "] done."
     /\ ArgClosed(ex_arg))
        => OneReadFile(ex_arg)

C26_Witness ==
    /\ Extracted
    /\ ex_arg = "[x]"
    /\ ex_content = "[READ_FILE: [x]]"
    /\ extracted = <<[name |-> "READ_FILE", arg |-> "[x]"]>>

RECURSIVE QuoteOpenAt(_, _, _, _)
\* the quote mark that is open at the end of a, "" when none is
QuoteOpenAt(a, k, quote, escaped) ==
    IF k = Len(a) THEN quote
    ELSE IF escaped THEN QuoteOpenAt(a, k + 1, quote, FALSE)
    ELSE IF CharAt(a, k) = "\\" THEN QuoteOpenAt(a, k + 1, quote, TRUE)
    ELSE IF quote # "" THEN QuoteOpenAt(a, k + 1, IF CharAt(a, k) = quote THEN "" ELSE quote, FALSE)
    ELSE IF CharAt(a, k) \in QuoteMarks THEN QuoteOpenAt(a, k + 1, CharAt(a, k), FALSE)
    ELSE QuoteOpenAt(a, k + 1, quote, FALSE)

\* C27: a bracket inside an open quote does not change the depth, and a
\* quote mark after a backslash does not close the quote: no invocation
\* ends inside a quote, a quoted bracket alone is a whole argument, and the
\* argument with an escaped quote mark before a quoted ] is kept whole.
C27_QuotedBracketsIgnored ==
    Extracted =>
        /\ \A k \in 1..Len(extracted) : QuoteOpenAt(extracted[k].arg, 0, "", FALSE) = ""
        /\ \A q \in {"\"", "'"}, b \in {"[", "]"} :
               ex_content = "[READ_FILE: " \o q \o b \o q \o "]"
                   => extracted = <<[name |-> "READ_FILE", arg |-> q \o b \o q]>>
        /\ ex_content = "[READ_FILE: \"a\\\"]b\"]"
               => extracted = <<[name |-> "READ_FILE", arg |-> "\"a\\\"]b\""]>>
        /\ ex_content = "[READ_FILE: " \o Backtick \o "a]b" \o Backtick \o "]"
               => extracted = <<[name |-> "READ_FILE", arg |-> Backtick \o "a]b" \o Backtick]>>

C27_Witness ==
    /\ Extracted
    /\ ex_content = "[READ_FILE: \"a\\\"]b\"]"
    /\ extracted = <<[name |-> "READ_FILE", arg |-> "\"a\\\"]b\""]>>

\* C28 as stated: a text without [ yields no invocation.
C28_Original == (Extracted /\ ~Contains(ex_content, "[")) => extracted = <<>>

\* C28, amended: a text that has no [ and neither of the fence markers
\* that open an envelope (the fence followed by tool_code or by json)
\* yields no invocation.
C28_NoOpenerNoInvocation ==
    (/\ Extracted
     /\ ~Contains(ex_content, "[")
     /\ ~Contains(ex_content, Fence \o "tool_code")
     /\ ~Contains(ex_content, Fence \o "json"))
        => extracted = <<>>

C28_Witness ==
    /\ Extracted
    /\ ex_content = Fence \o "\nREAD_FILE: x\n" \o Fence
    /\ extracted = <<>>

\* C29: an envelope with no matching close before the end of the text is
\* discarded, and the scan goes on one character after its opening
\* delimiter: the unterminated [READ_FILE: arg yields nothing, and the
\* invocation inside the unterminated [EDIT_FILE: [READ_FILE: arg] is
\* emitted.
C29_UnterminatedDiscarded ==
    (Extracted /\ ArgClosed(ex_arg)) =>
        /\ ex_content = "[READ_FILE: " \o ex_arg => extracted = <<>>
        /\ ex_content = "[EDIT_FILE: [READ_FILE: " \o ex_arg \o "]" => OneReadFile(ex_arg)

C29_Witness ==
    /\ Extracted
    /\ ex_content = "[EDIT_FILE: [READ_FILE: x]"
    /\ extracted = <<[name |-> "READ_FILE", arg |-> "x"]>>

\* C30: a well-formed envelope whose name is not registered yields no
\* entry: [FOOBAR: arg] gives the empty list, for 1 as for any argument,
\* while the upper-case READ_FILE is found in the registry of lower-case
\* names.
C30_UnregisteredIsSkipped ==
    Extracted =>
        /\ ex_content = "[FOOBAR: " \o ex_arg \o "]" => extracted = <<>>
        /\ ex_content = "[FOOBAR: 1]" => extracted = <<>>
        /\ ex_content = "[READ_FILE: 1]" => extracted = <<[name |-> "READ_FILE", arg |-> "1"]>>

C30_Witness ==
    /\ Extracted
    /\ ex_content = "[FOOBAR: 1]"
    /\ extracted = <<>>

\* the characters a name is made of
IdentChars ==
    {"A", "B", "C", "D", "E", "F", "G", "H", "I", "J", "K", "L", "M", "N", "O", "P", "Q",
     "R", "S", "T", "U", "V", "W", "X", "Y", "Z",
     "0", "1", "2", "3", "4", "5", "6", "7", "8", "9", "_"}

\* in s, from position from on: optional whitespace, then a name of two or
\* more characters, then a colon right after it
NameFollows(s, from) ==
    \E a \in from..Len(s), b \in from..(Len(s) - 1) :
        /\ a + 2 <= b
        /\ \A k \in from..(a - 1) : CharAt(s, k) \in Blank
        /\ \A k \in a..(b - 1) : CharAt(s, k) \in IdentChars
        /\ CharAt(s, b) = ":"

\* C31: a json fence at the start of the text is an envelope only if, after
\* the marker and optional whitespace, a name of upper-case letters, digits
\* and underscores, two characters or longer, is immediately followed by a
\* colon: then the body up to the closing fence is the argument, brackets
\* included; otherwise the fence is no envelope and the scan moves on by
\* one character, so the result is that of the text without its first
\* character.
C31_JsonFenceNeedsName ==
    (Extracted /\ StartsWith(ex_content, Fence \o "json")) =>
        IF NameFollows(ex_content, 7)
        THEN /\ (ex_content = Fence \o "json\nREAD_FILE: " \o ex_arg \o "\n" \o Fence
                    /\ QuoteOpenAt(ex_arg, 0, "", FALSE) = "")
                   => OneReadFile(ex_arg)
             /\ ex_content = Fence \o "jsonREAD_FILE: x" \o Fence
                   => extracted = <<[name |-> "READ_FILE", arg |-> "x"]>>
             /\ ex_content = Fence \o "json \n\tREAD_FILE: [x\n" \o Fence
                   => extracted = <<[name |-> "READ_FILE", arg |-> "[x"]>>
        ELSE extracted = extract_tools(Tail(ex_content))

C31_Witness ==
    /\ Extracted
    /\ ex_content = Fence \o "json\nR: [READ_FILE: x]\n" \o Fence
    /\ extracted = <<[name |-> "READ_FILE", arg |-> "x"]>>

RECURSIVE BodyEnd(_, _, _, _)
\* the position in s, from k on, of the first closing fence that is not
\* preceded by an escaping backslash and not inside an open quote, with
\* the quote and escape state of a bracket envelope; -1 when there is none
BodyEnd(s, k, quote, escaped) ==
    IF k >= Len(s) THEN -1
    ELSE IF MatchAt(s, k, Fence) /\ ~escaped /\ quote = "" THEN k
    ELSE IF escaped THEN BodyEnd(s, k + 1, quote, FALSE)
    ELSE IF CharAt(s, k) = "\\" THEN BodyEnd(s, k + 1, quote, TRUE)
    ELSE IF quote # "" THEN BodyEnd(s, k + 1, IF CharAt(s, k) = quote THEN "" ELSE quote, FALSE)
    ELSE IF CharAt(s, k) \in QuoteMarks THEN BodyEnd(s, k + 1, CharAt(s, k), FALSE)
    ELSE BodyEnd(s, k + 1, quote, FALSE)

\* the text opens with a tool_code envelope that names READ_FILE
ToolCodeHead == Fence \o "tool_code\nREAD_FILE:"

\* C32: the body of a tool_code envelope ends at the first closing fence
\* that is unescaped and not inside an open quote: the argument of the
\* invocation is the text between the colon and that fence, trimmed, and
\* without such a fence there is no invocation.
C32_BodyEndsAtUnescapedFence ==
    (Extracted /\ StartsWith(ex_content, ToolCodeHead)) =>
        LET end == BodyEnd(ex_content, Len(ToolCodeHead), "", FALSE)
        IN  IF end = -1
            THEN extracted = <<>>
            ELSE /\ Len(extracted) = 1
                 /\ extracted[1].name = "READ_FILE"
                 /\ IsTrimOf(extracted[1].arg, Slice(ex_content, Len(ToolCodeHead), end))

\* C34: when every completion call and every tool execution returns,
\* think_internal returns, and it makes at most max_depth + 1 completion
\* calls: every completion call after the first is followed by a depth
\* increment or ends the loop.
C34_TerminatesWithinBound ==
    /\ [](Len(completions) <= max_depth + 1)
    /\ [][(Len(completions') = Len(completions) + 1 /\ completions # <<>>)
             => \/ depth' = depth + 1 /\ pc' = "top"
                \/ depth' = depth /\ pc' \in {"final", "report_loop_error"}]_vars
    /\ <>(pc = "returned")

C34_Witness ==
    /\ pc = "returned"
    /\ Len(completions) = max_depth + 1
    /\ depth = max_depth
    /\ ret = Some(content)

\* invocation j of the round is a read of the path that invocation i
\* writes, and its skill has run
ReadInSameRound(i, j) ==
    /\ to_lowercase(tasks[j].name) = "read_file"
    /\ tasks[j].arg = TargetPath(i)
    /\ tasks[j].st = "done"
    /\ Contains(tool_outputs, "--- Output from READ_FILE ---")

\* C35: the gate of a round is decided for every invocation of the round
\* against the messages of the earlier rounds only: an invocation subject
\* to the gate is refused exactly when the absolute form of its path is in
\* none of them, although the assistant text of the round names the path,
\* and a read of the same path run in the same round does not admit it.
C35_GateSeesEarlierRoundsOnly ==
    pc = "tools" =>
        \A i \in 1..Len(tasks) :
            GateSubject(i) =>
                /\ tasks[i].refused <=> ~Mentioned(ensure_absolute(TargetPath(i)))
                /\ (/\ ~Mentioned(ensure_absolute(TargetPath(i)))
                    /\ Contains(content, ensure_absolute(TargetPath(i)))
                    /\ \E j \in 1..Len(tasks) : ReadInSameRound(i, j))
                       => tasks[i].refused /\ ~Executed(i)

C35_Witness ==
    /\ pc = "tools"
    /\ content = "[READ_FILE: /tmp/z.txt] [WRITE_FILE: /tmp/z.txt --content=y]"
    /\ Len(tasks) = 2
    /\ ReadInSameRound(2, 1)
    /\ ~Mentioned("/tmp/z.txt")
    /\ tasks[2].refused /\ tasks[2].st = "done" /\ RefusalReported(2)

\* an earlier round refused a write to absolute_path: its feedback message
\* carries the refusal
RefusedEarlier(absolute_path) ==
    \E m \in 3..Len(messages) :
        /\ messages[m].role = "user"
        /\ Contains(messages[m].content, "State Verification Refused")
        /\ Contains(messages[m].content, "'" \o absolute_path \o "'")

\* a read of path was asked for in an earlier round
ReadEarlier(path) ==
    \E m \in 3..Len(messages) :
        /\ messages[m].role = "assistant"
        /\ Contains(messages[m].content, "[READ_FILE: " \o path)

RoleAt(k) ==
    IF k = 1 THEN "system"
    ELSE IF k % 2 = 0 THEN "user"
    ELSE "assistant"

\* think_internal is about to call, or is in, complete()
AtCompletion == pc \in {"complete", "correcting", "recomplete"}

\* C37: at the top of every round the history has exactly 2 + 2 * depth
\* messages, whose roles are system, user, then assistant and user in
\* turn, and every completion call is made on a history whose last message
\* has the role user.
C37_HistoryShape ==
    /\ pc = "top" => Len(messages) = 2 + 2 * depth
    /\ pc = "top" => \A k \in 1..Len(messages) : messages[k].role = RoleAt(k)
    /\ AtCompletion => Last(messages).role = "user"
    /\ pc \in {"correcting", "recomplete"} => Len(messages) = 2 + 2 * (depth + 1)

C37_Witness ==
    /\ pc = "top"
    /\ depth = max_depth
    /\ Len(messages) = 2 + 2 * max_depth
    /\ \E k \in 3..Len(messages) : messages[k].content = CorrectiveText
    /\ \E k \in 3..Len(messages) : EndsWith(messages[k].content, FeedbackSuffix)

\* C38: every spawn call queued for a permit eventually holds one and
\* returns, given that the wait of every call ends (with its subprocess or
\* at the timeout): no waiter is starved and the pool never deadlocks
C38_EveryWaiterReturns ==
    \A c \in Callers : (call[c] = "queued") ~> (call[c] = "returned")

\* the pool is full, a seventh call is queued behind it, and nothing has
\* returned yet
C38_Witness ==
    /\ permits = 0
    /\ call[NumCallers] = "queued"
    /\ waiters = <<NumCallers>>
    /\ \A c \in Callers : call[c] # "returned"

\* the path the extraction finds in the argument of invocation i, whatever
\* the name of the invocation
ArgPath(i) == path_of(json_from_str(tasks[i].arg), tasks[i].arg)

\* C39: the write-safety gate applies to every name of the destructive set,
\* delegate included: an invocation with such a name, whose argument holds
\* a path that is not exempt and whose absolute form is neither in the
\* history nor in the system prompt, is refused and its skill is not run.
C39_GateAppliesToDelegate ==
    pc = "tools" =>
        \A i \in 1..Len(tasks) :
            \A target \in {ArgPath(i)} :
                (/\ to_lowercase(tasks[i].name) \in destructive_tools
                 /\ target.some
                 /\ ~is_internal(ensure_absolute(target.val))
                 /\ ~Mentioned(ensure_absolute(target.val)))
                    => tasks[i].refused /\ ~Executed(i)

\* a path the gate exempts, as written in the argument
ExemptPath(path) ==
    \/ EndsWith(path, "session_summary.md")
    \/ EndsWith(path, "LOGS.md")
    \/ Contains(path, "/workspace/context/")

\* C40: a destructive invocation whose path ends in session_summary.md or
\* LOGS.md, or lies under /workspace/context/, is never refused by the
\* gate, mentioned or not in the history and the system prompt.
C40_ExemptNeverRefused ==
    pc = "tools" =>
        \A i \in 1..Len(tasks) :
            \A target \in {ArgPath(i)} :
                (/\ to_lowercase(tasks[i].name) \in destructive_tools
                 /\ target.some
                 /\ ExemptPath(target.val))
                    => ~tasks[i].refused

C40_Witness ==
    /\ pc = "tools"
    /\ content = "[WRITE_FILE: a/session_summary.md]"
    /\ ArgPath(1) = Some("a/session_summary.md")
    /\ ~Mentioned("a/session_summary.md")
    /\ ~Mentioned(ensure_absolute("a/session_summary.md"))
    /\ ~tasks[1].refused
    /\ tasks[1].st = "exec"

=============================================================================
